---- MODULE Spec2Model ----
(***************************************************************************)
(* A model of pdf_harvest: the batched two-stage DOI harvester.            *)
(*                                                                         *)
(* The repository holds two implementations of the same pipeline: the      *)
(* single-file harvester (core_pdf_scanner_batch.py, impl = "core") and    *)
(* the pdfharvest package (src/pdfharvest, impl = "pkg").  Both are        *)
(* modelled; impl selects which code an action follows.                    *)
(*                                                                         *)
(* Times are in milliseconds (0.5 s = 500).                                *)
(***************************************************************************)
EXTENDS Integers, Sequences, FiniteSets, TLC

VARIABLES
    impl,       \* which implementation runs: "core" or "pkg"
    \* ---- backoff_request: one logical call ----
    bo_pc,      \* "idle" | "request" | "sleep" | "returned" | "raised"
    bo_i,       \* the loop variable i of `for i in range(max_tries)`
    bo_hist,    \* the responses received so far, one per request issued
    bo_waits,   \* the asyncio.sleep arguments so far, in ms
    bo_out,     \* "none" | "response" | the class of the exception raised
    \* ---- configuration and input of a run ----
    cfg,        \* batch_size, concurrency, cache flags, strings, dry_run, ...
    dois,       \* the identifier list read from the input sheet
    upstream,   \* what the upstream services answer for each identifier
    \* ---- the orchestrator (run / run_batch) ----
    pc,         \* "init" | "prepare" | "process" | "final" | "done" | "aborted"
    start,      \* the loop variable `start` of the batch loop
    tasks,      \* the Stage-1 coroutines of the current batch, in gather order
    sem,        \* the value of the per-batch asyncio.Semaphore
    rows,       \* the rows of the current batch (gather's result)
    st2,        \* the locals of process_batch_pdfs: to_process, futs, position
    all_rows,   \* the accumulated rows
    reports,    \* every row set handed to the report writer, in order
    \* ---- durable state under output_dir ----
    cache,      \* cache/<ns>/<key>.json, per namespace
    files,      \* the downloads, found and notfound folders: path -> file
    \* ---- bookkeeping for the properties ----
    calls,      \* how often this run called the fetch, download and scan functions
    run,        \* the number of the current run (1-based)
    prev,       \* the rows and configuration of the runs before
    \* ---- one call of a function of the program, made on its own ----
    fn_call,    \* the function called and its arguments ("none": no call yet)
    fn_ret      \* what the call returned, or that it raised

bo_vars == <<bo_pc, bo_i, bo_hist, bo_waits, bo_out>>

fn_vars == <<fn_call, fn_ret>>

orch_vars ==
    <<cfg, dois, upstream, pc, start, tasks, sem, rows, st2, all_rows, reports,
      cache, files, calls, run, prev>>

Impls == {"core", "pkg"}

Min(a, b) == IF a <= b THEN a ELSE b

(***************************************************************************)
(* Identifiers, documents, files                                           *)
(***************************************************************************)

\* Finite maps with a growing domain (directories, cache namespaces).
Put(f, k, v) == [x \in (DOMAIN f) \cup {k} |-> IF x = k THEN v ELSE f[x]]
Remove(f, k) == [x \in (DOMAIN f) \ {k} |-> f[x]]
EmptyMap == <<>>

\* Identifiers are strings, written as sequences of characters.  "/" stands
\* for every character outside [A-Za-z0-9._-].
AllowedChars == {"a", "b", "_"}
DoiUniverse == {<<"a">>, <<"a", "/", "b">>, <<"a", "_", "b">>}

\* re.sub(r"[^A-Za-z0-9._-]+", "_", s): each maximal run of other characters
\* becomes one "_".  (The strip() and the removal of "doi:" before it change
\* nothing on the identifiers above.)
RECURSIVE sub_runs(_, _)
sub_runs(s, in_run) ==
    IF s = <<>> THEN <<>>
    ELSE IF Head(s) \in AllowedChars THEN <<Head(s)>> \o sub_runs(Tail(s), FALSE)
    ELSE IF in_run THEN sub_runs(Tail(s), TRUE)
    ELSE <<"_">> \o sub_runs(Tail(s), TRUE)

sanitize_keep_all(s) == s
sanitize_filename(s) == sub_runs(s, FALSE)

\* A JSON object of the metadata or the open-access upstream.  nonempty is
\* Python's truth value of the dict; best is best_oa_location (<<>> for
\* null), locs is oa_locations.
NoUrl == <<>>
EmptyDict ==
    [nonempty |-> FALSE, title |-> <<>>, is_oa |-> "None", best |-> <<>>, locs |-> <<>>]
UrlOf(d) == <<"pdf:">> \o d
Loc(pdf, page) == [url_for_pdf |-> pdf, url |-> page]
MetaOf(d) == [EmptyDict EXCEPT !.nonempty = TRUE, !.title = d]
OaPdf(d) ==
    [EmptyDict EXCEPT !.nonempty = TRUE, !.is_oa = "true",
                      !.best = <<Loc(UrlOf(d), NoUrl)>>,
                      !.locs = <<Loc(UrlOf(d), NoUrl)>>]
OaLoc(d) ==
    [EmptyDict EXCEPT !.nonempty = TRUE, !.is_oa = "true",
                      !.locs = <<Loc(NoUrl, NoUrl), Loc(NoUrl, UrlOf(d))>>]
OaClosed == [EmptyDict EXCEPT !.nonempty = TRUE, !.is_oa = "false"]

loc_url_page_first(loc) == IF loc.url # NoUrl THEN loc.url ELSE loc.url_for_pdf

\* loc.get("url_for_pdf") or loc.get("url")
loc_url(loc) == IF loc.url_for_pdf # NoUrl THEN loc.url_for_pdf ELSE loc.url

RECURSIVE first_loc_url(_)
first_loc_url(locs) ==
    IF locs = <<>> THEN NoUrl
    ELSE IF loc_url(Head(locs)) # NoUrl THEN loc_url(Head(locs))
    ELSE first_loc_url(Tail(locs))

best_pdf_url(ua) ==
    IF ~ua.nonempty THEN NoUrl
    ELSE LET pdf == IF ua.best = <<>> THEN NoUrl ELSE loc_url(ua.best[1])
         IN  IF pdf # NoUrl THEN pdf ELSE first_loc_url(ua.locs)

\* Paths.  NoPath is the empty string of pdf_temp_path / pdf_final_path.
Path(dir, name) == [dir |-> dir, name |-> name]
NoPath == [dir |-> "", name |-> <<>>]
Exists(path) == path \in DOMAIN files

\* A file: the body it holds (or the start of it, while complete is FALSE).
File(body, complete) == [body |-> body, complete |-> complete]

\* The response bodies the PDF hosts serve: two PDFs and an HTML page.
\* Page texts are character sequences; a page whose extract_text() raises
\* has ok = FALSE.
Page(text) == [ok |-> TRUE, text |-> text]
BrokenPage == [ok |-> FALSE, text |-> <<>>]
BodyIsPdf(body) == body \in {"pdfA", "pdfB"}
BodyPages(body) ==
    CASE body = "pdfA" -> <<Page(<<"x", "A", "b">>), BrokenPage, Page(<<"a">>)>>
      [] body = "pdfB" -> <<Page(<<"b", "x">>), Page(<<>>)>>
      [] OTHER -> <<>>

(***************************************************************************)
(* Text Matcher: search_pdf                                                *)
(***************************************************************************)

NoMatch == [found |-> FALSE, matches |-> <<>>, pages |-> <<>>]

\* str.casefold on the characters of the page texts and needles.
fold_char(c) == IF c = "A" THEN "a" ELSE IF c = "B" THEN "b" ELSE IF c = "X" THEN "x" ELSE c
casefold(s) == [i \in 1..Len(s) |-> fold_char(s[i])]

\* `n in txt`
is_substring(n, txt) ==
    \E i \in 0..(Len(txt) - Len(n)) : \A j \in 1..Len(n) : txt[i + j] = n[j]

\* The order of sorted() on strings: by code point, shorter prefix first.
char_code(c) ==
    CASE c = "A" -> 65 [] c = "B" -> 66 [] c = "X" -> 88
      [] c = "a" -> 97 [] c = "b" -> 98 [] c = "x" -> 120 [] OTHER -> 0
RECURSIVE str_less(_, _)
str_less(s, t) ==
    IF t = <<>> THEN FALSE
    ELSE IF s = <<>> THEN TRUE
    ELSE IF Head(s) # Head(t) THEN char_code(Head(s)) < char_code(Head(t))
    ELSE str_less(Tail(s), Tail(t))

RECURSIVE sorted_strs_descending(_)
sorted_strs_descending(S) ==
    IF S = {} THEN <<>>
    ELSE LET m == CHOOSE x \in S : \A y \in S \ {x} : str_less(y, x)
         IN  <<m>> \o sorted_strs_descending(S \ {m})

RECURSIVE sorted_strs(_)
sorted_strs(S) ==
    IF S = {} THEN <<>>
    ELSE LET m == CHOOSE x \in S : \A y \in S \ {x} : str_less(x, y)
         IN  <<m>> \o sorted_strs(S \ {m})

RECURSIVE sorted_ints(_)
sorted_ints(S) ==
    IF S = {} THEN <<>>
    ELSE LET m == CHOOSE x \in S : \A y \in S : x <= y
         IN  <<m>> \o sorted_ints(S \ {m})

search_pdf_fatal_page(path, needles) ==
    IF ~Exists(path) \/ ~files[path].complete \/ ~BodyIsPdf(files[path].body)
    THEN NoMatch
    ELSE LET pgs == BodyPages(files[path].body)
             ns == {casefold(needles[k]) : k \in 1..Len(needles)}
             hit(i, n) == pgs[i].text # <<>> /\ is_substring(n, casefold(pgs[i].text))
             hits == {n \in ns : \E i \in 1..Len(pgs) : hit(i, n)}
             pages == {i \in 1..Len(pgs) : \E n \in ns : hit(i, n)}
         IN  IF hits = {} \/ \E i \in 1..Len(pgs) : ~pgs[i].ok THEN NoMatch
             ELSE [found |-> TRUE, matches |-> sorted_strs(hits),
                   pages |-> sorted_ints(pages)]

\* The scan of one file: PdfReader raises on a missing file, on a body
\* that is no PDF and on a truncated one; the except clause then returns
\* the initial res.
search_pdf(path, needles) ==
    IF ~Exists(path) \/ ~files[path].complete \/ ~BodyIsPdf(files[path].body)
    THEN NoMatch
    ELSE LET pgs == BodyPages(files[path].body)
             ns == {casefold(needles[k]) : k \in 1..Len(needles)}
             txt(i) == IF pgs[i].ok THEN casefold(pgs[i].text) ELSE <<>>
             hit(i, n) == txt(i) # <<>> /\ is_substring(n, txt(i))
             hits == {n \in ns : \E i \in 1..Len(pgs) : hit(i, n)}
             pages == {i \in 1..Len(pgs) : \E n \in ns : hit(i, n)}
         IN  IF hits = {} THEN NoMatch
             ELSE [found |-> TRUE, matches |-> sorted_strs(hits),
                   pages |-> sorted_ints(pages)]

(***************************************************************************)
(* Identifier Cache                                                        *)
(***************************************************************************)

\* cache_path: cache/<ns>/<sanitize(doi)>.json
cache_path(ns, doi) == [ns |-> ns, key |-> sanitize_filename(doi)]

\* JSON text, as the sequence of its tokens.  k is the kind of token
\* ("{", "}", "[", "]", "key", "str", "lit", "num"), s its characters.
Tok(k, s) == [k |-> k, s |-> s]

\* A lone surrogate code point (json.loads accepts the escape \ud800 in a
\* string; str.encode("utf-8") rejects the character) and its escape.
Surrogate == "U+D800"
SurrogateEscape == <<"\\", "u", "d", "8", "0", "0">>

\* json.dumps on a str with ensure_ascii=True: every non-ASCII character
\* becomes its \uXXXX escape; json.loads undoes it.
RECURSIVE json_escape(_)
json_escape(s) ==
    IF s = <<>> THEN <<>>
    ELSE (IF Head(s) = Surrogate THEN SurrogateEscape ELSE <<Head(s)>>)
         \o json_escape(Tail(s))

RECURSIVE json_unescape(_)
json_unescape(s) ==
    IF s = <<>> THEN <<>>
    ELSE IF Len(s) >= 6 /\ SubSeq(s, 1, 6) = SurrogateEscape
         THEN <<Surrogate>> \o json_unescape(SubSeq(s, 7, Len(s)))
         ELSE <<Head(s)>> \o json_unescape(Tail(s))

json_str(ea, s) == Tok("str", IF ea THEN json_escape(s) ELSE s)
\* a title or URL that may be None
json_opt(ea, s) == IF s = <<>> THEN Tok("lit", <<"null">>) ELSE json_str(ea, s)

json_loc(ea, loc) ==
    << Tok("{", <<>>), Tok("key", <<"url_for_pdf">>), json_opt(ea, loc.url_for_pdf),
       Tok("key", <<"url">>), json_opt(ea, loc.url), Tok("}", <<>>) >>

RECURSIVE json_locs(_, _)
json_locs(ea, locs) ==
    IF locs = <<>> THEN <<>> ELSE json_loc(ea, Head(locs)) \o json_locs(ea, Tail(locs))

\* json.dumps(data, ...): ea is ensure_ascii (the default True in pkg's
\* cache_write, False in core's write_cache_json).  A match result has the
\* keys found / matches / pages, an upstream record the keys read from it.
json_dumps(ea, doc) ==
    IF "found" \in DOMAIN doc
    THEN << Tok("{", <<>>), Tok("key", <<"found">>),
            Tok("lit", IF doc.found THEN <<"true">> ELSE <<"false">>),
            Tok("key", <<"matches">>), Tok("[", <<>>) >>
         \o [k \in 1..Len(doc.matches) |-> json_str(ea, doc.matches[k])]
         \o << Tok("]", <<>>), Tok("key", <<"pages">>), Tok("[", <<>>) >>
         \o [k \in 1..Len(doc.pages) |-> Tok("num", <<ToString(doc.pages[k])>>)]
         \o << Tok("]", <<>>), Tok("}", <<>>) >>
    ELSE IF ~doc.nonempty THEN << Tok("{", <<>>), Tok("}", <<>>) >>
    ELSE << Tok("{", <<>>), Tok("key", <<"title">>), json_opt(ea, doc.title),
            Tok("key", <<"is_oa">>),
            Tok("lit", IF doc.is_oa = "None" THEN <<"null">> ELSE <<doc.is_oa>>),
            Tok("key", <<"best_oa_location">>) >>
         \o (IF doc.best = <<>> THEN <<Tok("lit", <<"null">>)>>
             ELSE json_loc(ea, doc.best[1]))
         \o << Tok("key", <<"oa_locations">>), Tok("[", <<>>) >>
         \o json_locs(ea, doc.locs)
         \o << Tok("]", <<>>), Tok("}", <<>>) >>

\* json.loads, value by value
parse_opt(tok) == IF tok.k = "str" THEN json_unescape(tok.s) ELSE <<>>
parse_loc(t, i) == Loc(parse_opt(t[i + 2]), parse_opt(t[i + 4]))

parse_record(t) ==
    LET obj == t[7].k = "{"
        a == IF obj THEN 13 ELSE 8
        n == (Len(t) - a - 3) \div 6
    IN  [nonempty |-> TRUE,
         title |-> parse_opt(t[3]),
         is_oa |-> IF t[5].s = <<"null">> THEN "None" ELSE t[5].s[1],
         best |-> IF obj THEN <<parse_loc(t, 7)>> ELSE <<>>,
         locs |-> [k \in 1..n |-> parse_loc(t, a + 2 + 6 * (k - 1))]]

parse_match(t) ==
    LET close == CHOOSE i \in 6..Len(t) :
                     t[i].k = "]" /\ \A j \in 6..(i - 1) : t[j].k # "]"
    IN  [found |-> t[3].s = <<"true">>,
         matches |-> [k \in 1..(close - 6) |-> json_unescape(t[5 + k].s)],
         pages |-> [k \in 1..(Len(t) - close - 4) |->
                       CHOOSE m \in 0..9 : <<ToString(m)>> = t[close + 2 + k].s]]

\* ok = FALSE is json.JSONDecodeError
json_loads(t) ==
    IF Len(t) < 2 \/ t[1].k # "{" \/ t[Len(t)].k # "}"
    THEN [ok |-> FALSE, doc |-> EmptyDict]
    ELSE IF Len(t) = 2 THEN [ok |-> TRUE, doc |-> EmptyDict]
    ELSE IF t[2].s = <<"found">> THEN [ok |-> TRUE, doc |-> parse_match(t)]
    ELSE [ok |-> TRUE, doc |-> parse_record(t)]

\* str.encode("utf-8") of the text: a lone surrogate is not encodable
utf8_encodable(t) == \A i \in 1..Len(t) : \A j \in 1..Len(t[i].s) : t[i].s[j] # Surrogate

\* A stored file: utf8 is whether its bytes decode as UTF-8, text the JSON
\* text they decode to.  path.write_text opens (and truncates) the file
\* before it encodes: a text that is not encodable leaves an empty file,
\* and the UnicodeEncodeError is swallowed by write_cache_json.
StoredFile(t) == [utf8 |-> TRUE, text |-> IF utf8_encodable(t) THEN t ELSE <<>>]
Entry(doc) == StoredFile(json_dumps(impl = "pkg", doc))

HasEntry(cp) == cp.key \in DOMAIN cache[cp.ns]

\* read_cache_json (core): the document, or None for a missing or malformed
\* file.  cache_read (pkg): the document, or {} for those.  hit = FALSE is
\* None; miss is the value returned for a miss.
cache_read_in(c, cp, miss) ==
    IF cp.key \in DOMAIN c[cp.ns] /\ c[cp.ns][cp.key].utf8
                                  /\ json_loads(c[cp.ns][cp.key].text).ok
    THEN [hit |-> TRUE, doc |-> json_loads(c[cp.ns][cp.key].text).doc]
    ELSE [hit |-> FALSE, doc |-> miss]
cache_read(cp, miss) == cache_read_in(cache, cp, miss)

\* Does the read raise?  core catches every Exception around
\* json.loads(path.read_text(...)); pkg catches json.JSONDecodeError only,
\* so the UnicodeDecodeError of read_text leaves cache_read.
cache_read_raises(im, cp) ==
    im = "pkg" /\ HasEntry(cp) /\ ~cache[cp.ns][cp.key].utf8

\* write_cache_json / cache_write on a cache state c
cache_write(c, cp, doc) == [c EXCEPT ![cp.ns] = Put(@, cp.key, Entry(doc))]

(***************************************************************************)
(* Resilient HTTP client: backoff_request                                  *)
(***************************************************************************)

max_tries == 6
base_ms == 500
cap_ms == 10000

\* `r.status_code in (429, 500, 502, 503, 504)`
RetryableStatuses == {429, 500, 502, 503, 504}

\* Retry-After header values an upstream may send: none, delta-seconds, or
\* an HTTP-date (RFC 9110 allows both forms).
RetryAfterNone == ""
RetryAfterDate == "Wed, 21 Oct 2015 07:28:00 GMT"
RetryAfterValues == {RetryAfterNone, "0", "3", RetryAfterDate}

\* Python's float(ra) on the header values above, in ms; ok = FALSE is the
\* ValueError float() raises on a string that is not a number.
float_ms(ra) ==
    CASE ra = "0" -> [ok |-> TRUE, ms |-> 0]
      [] ra = "3" -> [ok |-> TRUE, ms |-> 3000]
      [] OTHER -> [ok |-> FALSE, ms |-> 0]

\* What one `await client.request(...)` can yield: a response with a status
\* and headers, or a transport-level failure (httpx.RequestError).
StatusDomain == {200, 403, 429, 503}
Responses ==
    {[kind |-> "status", status |-> s, ra |-> RetryAfterNone] :
        s \in StatusDomain \ RetryableStatuses}
    \cup {[kind |-> "status", status |-> s, ra |-> ra] :
        s \in StatusDomain \cap RetryableStatuses, ra \in RetryAfterValues}
    \cup {[kind |-> "transport", status |-> 0, ra |-> RetryAfterNone]}

status_response(s) == [kind |-> "status", status |-> s, ra |-> RetryAfterNone]
transport_failure == [kind |-> "transport", status |-> 0, ra |-> RetryAfterNone]

\* min(base * (2 ** i), cap)
computed_wait_doubled(i) == Min(base_ms * (2 ^ (i + 1)), cap_ms)
computed_wait(i) == Min(base_ms * (2 ^ i), cap_ms)

\* The wait after a retryable status on attempt i.  core honours
\* Retry-After (`float(ra) if ra else min(...)`); pkg never reads it.
status_wait(im, i, ra) ==
    IF im = "core" /\ ra # RetryAfterNone
    THEN float_ms(ra)
    ELSE [ok |-> TRUE, ms |-> computed_wait(i)]

\* Whether the `except` clause around the request catches an
\* httpx.HTTPStatusError raised by r.raise_for_status(): core catches
\* httpx.HTTPError (its base class), pkg only httpx.RequestError.
catches_status_error(im) == im = "core"

\* One iteration of the loop body for attempt i and the response (or
\* transport failure) it met: sleep and go on, return, or raise.
\*   act = "sleep":  asyncio.sleep(ms), then the next iteration
\*   act = "return": return r
\*   act = "raise":  the exception of class err leaves backoff_request
backoff_attempt(im, i, resp) ==
    LET caught_then(err) ==
            \* `if i == max_tries - 1: raise` else sleep(min(base*2**i, cap))
            IF i = max_tries - 1
            THEN [act |-> "raise", err |-> err, ms |-> 0]
            ELSE [act |-> "sleep", err |-> "", ms |-> computed_wait(i)]
    IN  IF resp.kind = "transport"
        THEN caught_then("RequestError")
        ELSE IF resp.status \in RetryableStatuses
        THEN LET w == status_wait(im, i, resp.ra)
             IN  IF w.ok
                 THEN [act |-> "sleep", err |-> "", ms |-> w.ms]
                 ELSE [act |-> "raise", err |-> "ValueError", ms |-> 0]
        ELSE IF resp.status >= 400
        THEN \* r.raise_for_status() raises httpx.HTTPStatusError
             IF catches_status_error(im)
             THEN caught_then("HTTPStatusError")
             ELSE [act |-> "raise", err |-> "HTTPStatusError", ms |-> 0]
        ELSE [act |-> "return", err |-> "", ms |-> 0]

\* backoff_request as its callers see it: the outcome of the whole loop when
\* every attempt meets resp ("response", or the class of the exception).
RECURSIVE backoff_result(_, _, _)
backoff_result(im, i, resp) ==
    LET a == backoff_attempt(im, i, resp)
    IN  CASE a.act = "return" -> "response"
          [] a.act = "raise" -> a.err
          [] OTHER -> IF i + 1 < max_tries
                      THEN backoff_result(im, i + 1, resp)
                      ELSE "RuntimeError"

(***************************************************************************)
(* Metadata Fetcher: fetch_crossref, fetch_unpaywall                       *)
(***************************************************************************)

\* What an upstream answers for an identifier: a 200 with a body (a record,
\* an empty object, a body that is no JSON), an error status, or no
\* connection.
XrefKinds == {"ok", "empty", "badjson", "404", "403", "503", "neterr"}
UpwKinds == {"pdf", "closed", "empty", "badjson", "404", "403", "503", "neterr"}

answer_response(kind) ==
    CASE kind = "404" -> status_response(404)
      [] kind = "403" -> status_response(403)
      [] kind = "503" -> status_response(503)
      [] kind = "neterr" -> transport_failure
      [] OTHER -> status_response(200)

\* r.json().get("message", {}) resp. r.json() of a 200 answer
xref_body(d, kind) == IF kind = "ok" THEN MetaOf(d) ELSE EmptyDict
upw_body(d, kind) ==
    CASE kind = "pdf" -> OaPdf(d)
      [] kind = "loc" -> OaLoc(d)
      [] kind = "closed" -> OaClosed
      [] OTHER -> EmptyDict

\* A fetch: the document returned, or raised = TRUE when an exception
\* leaves the function.  core's fetchers catch nothing.  pkg's return {} on
\* a 404 and on any exception that is no HTTPStatusError, and re-raise an
\* HTTPStatusError with another status.
fetch(im, kind, body) ==
    LET out == backoff_result(im, 0, answer_response(kind))
        failed == [raised |-> TRUE, doc |-> EmptyDict]
        empty == [raised |-> FALSE, doc |-> EmptyDict]
    IN  IF im = "core"
        THEN IF out = "response" /\ kind # "badjson"
             THEN [raised |-> FALSE, doc |-> body]
             ELSE failed
        ELSE CASE out = "response" ->
                    IF kind = "badjson" THEN empty
                    ELSE [raised |-> FALSE, doc |-> body]
               [] out = "HTTPStatusError" ->
                    IF answer_response(kind).status = 404 THEN empty ELSE failed
               [] OTHER -> empty

fetch_crossref(im, d, kind) == fetch(im, kind, xref_body(d, kind))
fetch_unpaywall(im, d, kind) == fetch(im, kind, upw_body(d, kind))

(***************************************************************************)
(* PDF Downloader: download_pdf                                            *)
(***************************************************************************)

\* What a PDF host answers: a status, a Content-Type (is it a PDF type?),
\* a body, and where the transfer fails, if it does.
DlKinds == {"pdfA", "pdfB", "html", "mislabeled", "untyped", "404", "refused", "reset"}
DlAnswer(status, ctype_pdf, body, fail) ==
    [status |-> status, ctype_pdf |-> ctype_pdf, body |-> body, fail |-> fail]
NoDl == DlAnswer(0, FALSE, "none", "none")
dl_answer(kind) ==
    CASE kind = "pdfA" -> DlAnswer(200, TRUE, "pdfA", "none")
      [] kind = "pdfB" -> DlAnswer(200, TRUE, "pdfB", "none")
      [] kind = "html" -> DlAnswer(200, FALSE, "html", "none")
      [] kind = "mislabeled" -> DlAnswer(200, TRUE, "html", "none")
      [] kind = "untyped" -> DlAnswer(200, FALSE, "pdfA", "none")
      [] kind = "404" -> DlAnswer(404, FALSE, "html", "none")
      [] kind = "refused" -> DlAnswer(0, FALSE, "none", "connect")
      [] OTHER -> DlAnswer(200, TRUE, "pdfA", "midstream")

\* The answers an identifier can get ("any": the upstream is free).
XrefAnswers(d) == IF upstream[d].x = "any" THEN XrefKinds ELSE {upstream[d].x}
UpwAnswers(d) == IF upstream[d].u = "any" THEN UpwKinds ELSE {upstream[d].u}
DlAnswers(d) == IF upstream[d].p = "any" THEN DlKinds ELSE {upstream[d].p}

\* The staged file of an identifier: <downloads>/<sanitized>.pdf
staged_path(d) == Path("downloads", sanitize_filename(d))

\* out_path.with_stem(out_path.stem + "_" + uuid4()[:8]): a name no file has.
temp_path(out) ==
    LET n == CHOOSE k \in 1..(Cardinality(DOMAIN files) + 1) :
                /\ Path(out.dir, out.name \o <<"_", "uuid", ToString(k)>>) \notin DOMAIN files
                /\ \A j \in 1..(k - 1) :
                     Path(out.dir, out.name \o <<"_", "uuid", ToString(j)>>) \in DOMAIN files
    IN  Path(out.dir, out.name \o <<"_", "uuid", ToString(n)>>)

\* Does the response pass the check made before the body is read?
\* core: `r.status_code >= 400` fails; pkg: anything but 200, and any
\* Content-Type without "pdf", fails.
dl_accepts_headers(im, a) ==
    IF im = "core" THEN a.status < 400 ELSE a.status = 200 /\ a.ctype_pdf

\* Does the written file pass the check made after the body is read?
\* core reads the first four bytes; pkg checks nothing more.
dl_accepts_any_body(im, a) == TRUE
dl_accepts_body(im, a) == IF im = "core" THEN BodyIsPdf(a.body) ELSE TRUE

(***************************************************************************)
(* Stage 1: prepare_one                                                    *)
(***************************************************************************)

Row(d, meta, oa, url, temp) ==
    [doi |-> d, title |-> meta.title, is_oa |-> oa.is_oa, pdf_url |-> url,
     pdf_temp_path |-> temp, pdf_final_path |-> NoPath,
     match_found |-> FALSE, matched_strings |-> <<>>, match_pages |-> <<>>]
NoRow == Row(<<>>, EmptyDict, EmptyDict, NoUrl, NoPath)

\* A Stage-1 coroutine prep_wrapped(doi): where it stands and its locals.
\*   "new"      created by gather, not yet past `async with sem`
\*   "xref"     suspended in fetch_crossref
\*   "upw"      suspended in fetch_unpaywall
\*   "dl_wait"  suspended in download_pdf, awaiting the response headers
\*   "dl_body"  suspended in download_pdf, streaming the body to the file
\*   "done"     returned its row;  "raised": an exception left it;
\*   "cancelled": cancelled when the run was torn down
NewTask(d) ==
    [pc |-> "new", doi |-> d, meta |-> EmptyDict, oa |-> EmptyDict, oa_hit |-> FALSE,
     url |-> NoUrl, dl |-> NoDl, tmp |-> NoPath, row |-> NoRow]

InFlightPcs == {"xref", "upw", "dl_wait", "dl_body"}
InFlight(t) == t.pc \in InFlightPcs

\* prepare_one returns its row.
finish(t, url, temp) ==
    [NewTask(t.doi) EXCEPT !.pc = "done", !.row = Row(t.doi, t.meta, t.oa, url, temp)]

\* prepare_one from `pdf_url = best_pdf_url(oa)` to the next suspension.
after_oa_ignoring_dry_run(t) ==
    LET url == best_pdf_url(t.oa)
        tgt == staged_path(t.doi)
        download == [t EXCEPT !.pc = "dl_wait", !.url = url]
    IN  IF url = NoUrl THEN finish(t, url, NoPath)
        ELSE IF impl = "core"
        THEN IF Exists(tgt) /\ ~cfg.force_refresh THEN finish(t, url, tgt) ELSE download
        ELSE download
after_oa(t) ==
    LET url == best_pdf_url(t.oa)
        tgt == staged_path(t.doi)
        download == [t EXCEPT !.pc = "dl_wait", !.url = url]
    IN  IF url = NoUrl THEN finish(t, url, NoPath)
        ELSE IF impl = "core"
        THEN IF Exists(tgt) /\ ~cfg.force_refresh THEN finish(t, url, tgt) ELSE download
        ELSE IF ~cfg.dry_run THEN download ELSE finish(t, url, NoPath)

\* prepare_one from the point where meta is known to the next suspension.
\* core read both caches on entry; pkg reads the open-access cache now.
after_meta(t) ==
    IF impl = "core"
    THEN IF t.oa_hit THEN after_oa(t) ELSE [t EXCEPT !.pc = "upw"]
    ELSE LET o == cache_read(cache_path("unpaywall", t.doi), EmptyDict)
         IN  IF cache_read_raises(impl, cache_path("unpaywall", t.doi))
             THEN [NewTask(t.doi) EXCEPT !.pc = "raised"]
             ELSE IF o.doc.nonempty THEN after_oa([t EXCEPT !.oa = o.doc])
             ELSE [t EXCEPT !.pc = "upw", !.oa = o.doc]

\* The semaphore admits a coroutine while its value is positive.
sem_admits_always(v) == TRUE
sem_admits(v) == v > 0

\* Task i becomes t2: the semaphore is taken on entry and given back on
\* exit; an exception leaving a task leaves gather and the run, whose
\* teardown cancels the tasks still pending.
SetTask(i, t2) ==
    /\ tasks' = [j \in 1..Len(tasks) |->
                    IF j = i THEN t2
                    ELSE IF t2.pc = "raised" /\ tasks[j].pc # "done"
                    THEN [NewTask(tasks[j].doi) EXCEPT !.pc = "cancelled"]
                    ELSE tasks[j]]
    /\ sem' = CASE tasks[i].pc = "new" /\ t2.pc \notin {"done", "raised"} -> sem - 1
                [] tasks[i].pc # "new" /\ t2.pc \in {"done", "raised"} -> sem + 1
                [] OTHER -> sem
    /\ calls' = [calls EXCEPT !.fetch = @ \/ t2.pc \in {"xref", "upw"},
                              !.download = @ \/ (t2.pc = "dl_wait" /\ tasks[i].pc # "dl_wait")]
    /\ pc' = IF t2.pc = "raised" THEN "aborted" ELSE pc

Stage1Frame == UNCHANGED <<impl, fn_vars, bo_vars, cfg, dois, upstream, start, rows, st2,
                           all_rows, reports, run, prev>>

\* prep_wrapped(doi) passes the semaphore and runs prepare_one to its first
\* suspension: the cache lookups, and whatever follows a hit.
TaskStart(i) ==
    /\ tasks[i].pc = "new"
    /\ \A j \in 1..(i - 1) : tasks[j].pc # "new"
    /\ sem_admits(sem)
    /\ LET t == tasks[i]
           use == cfg.cache_enabled /\ ~cfg.force_refresh
           miss == [hit |-> FALSE, doc |-> EmptyDict]
           m == IF impl = "pkg" \/ use
                THEN cache_read(cache_path("crossref", t.doi), EmptyDict) ELSE miss
           o == IF impl = "core" /\ use
                THEN cache_read(cache_path("unpaywall", t.doi), EmptyDict) ELSE miss
           fetch_meta == IF impl = "core" THEN ~m.hit ELSE ~m.doc.nonempty
           t1 == [t EXCEPT !.meta = m.doc, !.oa = o.doc, !.oa_hit = o.hit]
       IN  SetTask(i, IF cache_read_raises(impl, cache_path("crossref", t.doi))
                      THEN [NewTask(t.doi) EXCEPT !.pc = "raised"]
                      ELSE IF fetch_meta THEN [t1 EXCEPT !.pc = "xref"]
                      ELSE after_meta(t1))
    /\ UNCHANGED <<cache, files>>
    /\ Stage1Frame

\* fetch_crossref comes back.
TaskXref(i) ==
    /\ tasks[i].pc = "xref"
    /\ \E kind \in XrefAnswers(tasks[i].doi) :
        LET t == tasks[i]
            r == fetch_crossref(impl, t.doi, kind)
            cp == cache_path("crossref", t.doi)
        IN  IF impl = "core"
            THEN \* try: meta = fetch; if cache_en: write -- except: meta = {}
                 /\ cache' = IF ~r.raised /\ cfg.cache_enabled
                             THEN cache_write(cache, cp, r.doc) ELSE cache
                 /\ SetTask(i, after_meta([t EXCEPT !.meta = r.doc]))
            ELSE IF r.raised
            THEN /\ cache' = cache
                 /\ SetTask(i, [NewTask(t.doi) EXCEPT !.pc = "raised"])
            ELSE /\ cache' = cache_write(cache, cp, r.doc)
                 /\ SetTask(i, after_meta([t EXCEPT !.meta = r.doc]))
    /\ UNCHANGED files
    /\ Stage1Frame

\* fetch_unpaywall comes back.
TaskUpw(i) ==
    /\ tasks[i].pc = "upw"
    /\ \E kind \in UpwAnswers(tasks[i].doi) :
        LET t == tasks[i]
            r == fetch_unpaywall(impl, t.doi, kind)
            cp == cache_path("unpaywall", t.doi)
        IN  IF impl = "core"
            THEN /\ cache' = IF ~r.raised /\ cfg.cache_enabled
                             THEN cache_write(cache, cp, r.doc) ELSE cache
                 /\ SetTask(i, after_oa([t EXCEPT !.oa = r.doc]))
            ELSE IF r.raised
            THEN /\ cache' = cache
                 /\ SetTask(i, [NewTask(t.doi) EXCEPT !.pc = "raised"])
            ELSE /\ cache' = cache_write(cache, cp, r.doc)
                 /\ SetTask(i, after_oa([t EXCEPT !.oa = r.doc]))
    /\ UNCHANGED files
    /\ Stage1Frame

\* download_pdf: the response headers arrive, or the connection fails.
\* A rejected response returns False; an accepted one opens the file the
\* body is streamed to: out_path itself in core, a temporary name in pkg.
TaskDlHeaders(i) ==
    /\ tasks[i].pc = "dl_wait"
    /\ \E kind \in DlAnswers(tasks[i].doi) :
        LET t == tasks[i]
            a == dl_answer(kind)
            out == staged_path(t.doi)
            to == IF impl = "core" THEN out ELSE temp_path(out)
        IN  IF a.fail = "connect" \/ ~dl_accepts_headers(impl, a)
            THEN /\ files' = files
                 /\ SetTask(i, finish(t, t.url, NoPath))
            ELSE /\ files' = Put(files, to, File(a.body, FALSE))
                 /\ SetTask(i, [t EXCEPT !.pc = "dl_body", !.dl = a, !.tmp = to])
    /\ UNCHANGED cache
    /\ Stage1Frame

\* download_pdf: the body ends, or the transfer breaks.  A broken transfer
\* returns False and leaves what was written.  core then checks the magic
\* bytes of out_path and unlinks a file that fails; pkg renames the
\* temporary file to out_path.
TaskDlBody(i) ==
    /\ tasks[i].pc = "dl_body"
    /\ LET t == tasks[i]
           a == t.dl
           out == staged_path(t.doi)
       IN  IF a.fail = "midstream"
           THEN /\ files' = files
                /\ SetTask(i, finish(t, t.url, NoPath))
           ELSE IF ~dl_accepts_body(impl, a)
           THEN /\ files' = Remove(files, out)
                /\ SetTask(i, finish(t, t.url, NoPath))
           ELSE /\ files' = Put(Remove(files, t.tmp), out, File(a.body, TRUE))
                /\ SetTask(i, finish(t, t.url, out))
    /\ UNCHANGED cache
    /\ Stage1Frame

(***************************************************************************)
(* Atomic Router: move_pdf_atomic                                          *)
(***************************************************************************)

\* The path the file is moved to: <dir>/<name>, or if that exists
\* <dir>/<stem>_<k> for the first k = 1, 2, ... that does not.
move_target_same_name(src, dir) == Path(dir, src.name)
move_target(src, dir) ==
    LET cand(k) == Path(dir, src.name \o <<"_", ToString(k)>>)
    IN  IF ~Exists(Path(dir, src.name)) THEN Path(dir, src.name)
        ELSE cand(CHOOSE k \in 1..(Cardinality(DOMAIN files) + 1) :
                    /\ ~Exists(cand(k))
                    /\ \A j \in 1..(k - 1) : Exists(cand(j)))

\* src.replace(target) on a directory state
rename_by_copy(fs, src, target) == Put(fs, target, fs[src])
rename(fs, src, target) == Put(Remove(fs, src), target, fs[src])

(***************************************************************************)
(* Stage 2: process_batch_pdfs                                             *)
(***************************************************************************)

\* One element of to_process: the row (by its position in rows), whether
\* the match cache answered, and the executor future of its scan:
\* "none" (no scan was submitted), "pending", "done" with its result.
Todo(r, hit, fut) == [r |-> r, hit |-> hit, fut |-> fut, res |-> NoMatch]
NoSt2 == [todo |-> <<>>, idx |-> 1]

\* r["match_found"], r["matched_strings"], r["match_pages"] = ... res
with_match(row, res) ==
    [row EXCEPT !.match_found = res.found,
                !.matched_strings = res.matches,
                !.match_pages = res.pages]

\* dest_dir = found_dir if r["match_found"] else notfound_dir
dest_dir_swapped(found) == IF found THEN "notfound" ELSE "found"
dest_dir(found) == IF found THEN "found" ELSE "notfound"

\* futs, as the elements of to_process whose scan was submitted: the ones
\* without a cached result, in order.
submitted_for_all(todo) == [k \in 1..Len(todo) |-> k]
submitted(todo) == SelectSeq([k \in 1..Len(todo) |-> k], LAMBDA k : ~todo[k].hit)

\* `res = await futs[idx]; idx += 1` when element k is reached: idx has
\* counted the elements before k that had no cached result.
awaited(todo, k) ==
    todo[submitted(todo)[1 + Cardinality({j \in 1..(k - 1) : ~todo[j].hit})]]

\* `if not r.get("pdf_temp_path"): continue`
has_staged_always(row) == TRUE
has_staged(row) == row.pdf_temp_path # NoPath

\* gather returns when every coroutine has returned.
gather_ready_on_first(ts) == \E i \in 1..Len(ts) : ts[i].pc = "done"
gather_ready(ts) == \A i \in 1..Len(ts) : ts[i].pc = "done"

\* Stage 2 is entered: gather has returned the rows.  core builds
\* to_process (rows with a staged path, each with its match-cache lookup),
\* copies the cached results into their rows and submits a scan for every
\* other one.  pkg takes the rows with a staged path in order.
Stage2Begin ==
    /\ pc = "prepare"
    /\ Len(tasks) > 0
    /\ gather_ready(tasks)
    /\ ~(impl = "pkg" /\ cfg.dry_run)
    /\ LET rs == [i \in 1..Len(tasks) |-> tasks[i].row]
           use == impl = "core" /\ cfg.cache_enabled /\ ~cfg.force_refresh
           look(i) == IF use THEN cache_read(cache_path("matches", rs[i].doi), NoMatch)
                      ELSE [hit |-> FALSE, doc |-> NoMatch]
           idxs == SelectSeq([i \in 1..Len(rs) |-> i], LAMBDA i : has_staged(rs[i]))
           listed == [k \in 1..Len(idxs) |-> Todo(idxs[k], look(idxs[k]).hit, "none")]
           todo == [k \in 1..Len(listed) |->
                      IF impl = "core" /\ \E m \in 1..Len(submitted(listed)) :
                                              submitted(listed)[m] = k
                      THEN [listed[k] EXCEPT !.fut = "pending"] ELSE listed[k]]
       IN  /\ rows' = [i \in 1..Len(rs) |->
                         IF has_staged(rs[i]) /\ look(i).hit
                         THEN with_match(rs[i], look(i).doc) ELSE rs[i]]
           /\ st2' = [todo |-> todo, idx |-> 1]
    /\ pc' = "process"
    /\ UNCHANGED <<impl, fn_vars, bo_vars, cfg, dois, upstream, start, tasks, sem, all_rows,
                   reports, cache, files, calls, run, prev>>

\* A worker thread of the default executor runs search_pdf for element k
\* (core: loop.run_in_executor), at any time before its result is awaited.
ScanRun(k) ==
    /\ pc = "process"
    /\ k \in 1..Len(st2.todo)
    /\ st2.todo[k].fut = "pending"
    /\ st2' = [st2 EXCEPT !.todo[k].fut = "done",
                          !.todo[k].res =
                              search_pdf(rows[st2.todo[k].r].pdf_temp_path, cfg.strings)]
    /\ calls' = [calls EXCEPT !.scan = TRUE]
    /\ UNCHANGED <<impl, fn_vars, bo_vars, cfg, dois, upstream, pc, start, tasks, sem, rows,
                   all_rows, reports, cache, files, run, prev>>

\* The next element of to_process is handled.
\* core: a fresh result is awaited, stored in the row and cached; then the
\* staged file, if it still exists, is moved and the row's staged path
\* cleared.  pkg: the file is scanned and moved; moving a file that is not
\* there raises FileNotFoundError, which ends the run.
Stage2Row ==
    /\ pc = "process"
    /\ st2.idx <= Len(st2.todo)
    /\ LET e == st2.todo[st2.idx]
           row == rows[e.r]
           src == row.pdf_temp_path
       IN  IF impl = "core"
           THEN /\ IF e.hit THEN TRUE ELSE awaited(st2.todo, st2.idx).fut = "done"
                /\ LET res == IF e.hit THEN NoMatch ELSE awaited(st2.todo, st2.idx).res
                       r1 == IF e.hit THEN row ELSE with_match(row, res)
                       target == move_target(src, dest_dir(r1.match_found))
                   IN  /\ cache' = IF ~e.hit /\ cfg.cache_enabled
                                   THEN cache_write(cache, cache_path("matches", row.doi), res)
                                   ELSE cache
                       /\ IF ~Exists(src)
                          THEN /\ rows' = [rows EXCEPT ![e.r] = r1]
                               /\ files' = files
                          ELSE /\ rows' = [rows EXCEPT ![e.r] =
                                              [r1 EXCEPT !.pdf_final_path = target,
                                                         !.pdf_temp_path = NoPath]]
                               /\ files' = rename(files, src, target)
                /\ pc' = pc
                /\ calls' = calls
           ELSE LET res == search_pdf(src, cfg.strings)
                    r1 == with_match(row, res)
                    target == move_target(src, dest_dir(res.found))
                IN  /\ calls' = [calls EXCEPT !.scan = TRUE]
                    /\ cache' = cache
                    /\ IF ~Exists(src)
                       THEN /\ rows' = [rows EXCEPT ![e.r] = r1]
                            /\ files' = files
                            /\ pc' = "aborted"
                       ELSE /\ rows' = [rows EXCEPT ![e.r] =
                                           [r1 EXCEPT !.pdf_final_path = target]]
                            /\ files' = rename(files, src, target)
                            /\ pc' = pc
    /\ st2' = [st2 EXCEPT !.idx = @ + 1]
    /\ UNCHANGED <<impl, fn_vars, bo_vars, cfg, dois, upstream, start, tasks, sem, all_rows,
                   reports, run, prev>>

(***************************************************************************)
(* Orchestrator: run / run_batch                                           *)
(***************************************************************************)

\* chunk = dois[start:start + batch_size], one coroutine per identifier,
\* and a fresh semaphore.
batch_tasks_reversed(s) ==
    LET n == Min(cfg.batch_size, Len(dois) - s)
    IN  [i \in 1..n |-> NewTask(dois[s + n + 1 - i])]
batch_tasks(s) ==
    [i \in 1..Min(cfg.batch_size, Len(dois) - s) |-> NewTask(dois[s + i])]

\* May the loop go on to the next batch?  Stage 2 of this one has handled
\* all of to_process (or, in a dry run, gather has returned).
batch_over_early ==
    \/ pc = "process"
    \/ pc = "prepare" /\ Len(tasks) > 0 /\ gather_ready(tasks)
batch_over ==
    \/ pc = "process" /\ st2.idx > Len(st2.todo)
    \/ pc = "prepare" /\ Len(tasks) > 0 /\ gather_ready(tasks)
         /\ impl = "pkg" /\ cfg.dry_run

\* The optional incremental report written after a batch: reps are the
\* reports written so far, rs the rows of all_rows.
report_each_always(reps, rs) == Append(reps, rs)
report_each(reps, rs) ==
    IF cfg.write_after_each_batch THEN Append(reps, rs) ELSE reps

\* run() up to the first batch.
RunStart ==
    /\ pc = "init"
    /\ IF Len(dois) = 0
       THEN /\ pc' = "final"
            /\ UNCHANGED <<tasks, sem>>
       ELSE /\ pc' = "prepare"
            /\ tasks' = batch_tasks(0)
            /\ sem' = cfg.concurrency
    /\ UNCHANGED <<impl, fn_vars, bo_vars, cfg, dois, upstream, start, rows, st2, all_rows,
                   reports, cache, files, calls, run, prev>>

\* The end of a loop iteration: all_rows.extend(rows), the incremental
\* report if configured, and the next batch's coroutines, if there is one.
BatchEnd ==
    /\ batch_over
    /\ LET rs == IF pc = "process" THEN rows
                 ELSE [i \in 1..Len(tasks) |-> tasks[i].row]
           next == start + cfg.batch_size
       IN  /\ all_rows' = all_rows \o rs
           /\ reports' = report_each(reports, all_rows \o rs)
           /\ IF next < Len(dois)
              THEN /\ pc' = "prepare"
                   /\ start' = next
                   /\ tasks' = batch_tasks(next)
                   /\ sem' = cfg.concurrency
              ELSE /\ pc' = "final"
                   /\ tasks' = <<>>
                   /\ UNCHANGED <<start, sem>>
    /\ rows' = <<>>
    /\ st2' = NoSt2
    /\ UNCHANGED <<impl, fn_vars, bo_vars, cfg, dois, upstream, cache, files, calls, run, prev>>

\* The final report, then run returns.
Finalize ==
    /\ pc = "final"
    /\ reports' = Append(reports, all_rows)
    /\ pc' = "done"
    /\ UNCHANGED <<impl, fn_vars, bo_vars, cfg, dois, upstream, start, tasks, sem, rows, st2,
                   all_rows, cache, files, calls, run, prev>>

\* No function has been called on its own.
FnCall(fn, ns, d, kind) ==
    [fn |-> fn, ns |-> ns, doi |-> d, kind |-> kind,
     doc |-> EmptyDict, path |-> NoPath, needles |-> <<>>]
FnRet(raised, hit, doc) == [raised |-> raised, hit |-> hit, doc |-> doc]
FnIdle ==
    /\ fn_call = FnCall("none", "", <<>>, "")
    /\ fn_ret = FnRet(FALSE, FALSE, EmptyDict)

BoIdle ==
    /\ bo_pc = "idle"
    /\ bo_i = 0
    /\ bo_hist = <<>>
    /\ bo_waits = <<>>
    /\ bo_out = "none"

\* A caller enters backoff_request: i = 0, nothing requested yet.
BoInit ==
    /\ impl \in Impls
    /\ bo_pc = "request"
    /\ bo_i = 0
    /\ bo_hist = <<>>
    /\ bo_waits = <<>>
    /\ bo_out = "none"

\* Attempt bo_i: the request is issued and its response (or transport
\* failure) handled up to the next suspension, return or raise.
BoRequest ==
    /\ bo_pc = "request"
    /\ \E resp \in Responses :
        LET a == backoff_attempt(impl, bo_i, resp)
        IN  /\ bo_hist' = Append(bo_hist, resp)
            /\ CASE a.act = "sleep" ->
                        /\ bo_pc' = "sleep"
                        /\ bo_waits' = Append(bo_waits, a.ms)
                        /\ bo_out' = bo_out
                 [] a.act = "return" ->
                        /\ bo_pc' = "returned"
                        /\ bo_out' = "response"
                        /\ bo_waits' = bo_waits
                 [] OTHER ->
                        /\ bo_pc' = "raised"
                        /\ bo_out' = a.err
                        /\ bo_waits' = bo_waits
    /\ UNCHANGED <<impl, bo_i, orch_vars, fn_vars>>

\* asyncio.sleep returns: the loop goes to its next iteration, or, after
\* the last one, falls through to the `raise RuntimeError(...)` below it.
BoWake ==
    /\ bo_pc = "sleep"
    /\ IF bo_i + 1 < max_tries
       THEN /\ bo_i' = bo_i + 1
            /\ bo_pc' = "request"
            /\ bo_out' = bo_out
       ELSE /\ bo_i' = bo_i
            /\ bo_pc' = "raised"
            /\ bo_out' = "RuntimeError"
    /\ UNCHANGED <<impl, bo_hist, bo_waits, orch_vars, fn_vars>>

BoNext == BoRequest \/ BoWake

(***************************************************************************)
(* Specifications                                                          *)
(***************************************************************************)

MaxDois == 2
MaxBatchSize == 2
MaxConcurrency == 2

\* The identifier lists of a run: up to MaxDois identifiers, repetitions
\* and identifiers with the same sanitized form included.
RECURSIVE SeqsUpTo(_, _)
SeqsUpTo(S, n) ==
    IF n = 0 THEN {<<>>}
    ELSE LET shorter == SeqsUpTo(S, n - 1)
         IN  shorter \cup {Append(q, x) : q \in {p \in shorter : Len(p) = n - 1}, x \in S}

InputLists == SeqsUpTo(DoiUniverse, MaxDois)

\* The configured `strings`: one list matches pdfA only, the other pdfB too.
NeedlesA == <<<<"A">>>>
NeedlesB == <<<<"b">>, <<"X", "a">>>>

Config(bs, cc, ce, fr, dr, wr, ns) ==
    [batch_size |-> bs, concurrency |-> cc, cache_enabled |-> ce, force_refresh |-> fr,
     dry_run |-> dr, write_after_each_batch |-> wr, strings |-> ns]

\* The configurations: core has the cache switches, pkg the dry-run switch.
Configs(im, NeedleLists) ==
    {Config(bs, cc, ce, fr, dr, wr, ns) :
        bs \in 1..MaxBatchSize, cc \in 1..MaxConcurrency,
        ce \in IF im = "core" THEN BOOLEAN ELSE {TRUE},
        fr \in IF im = "core" THEN BOOLEAN ELSE {FALSE},
        dr \in IF im = "pkg" THEN BOOLEAN ELSE {FALSE},
        wr \in BOOLEAN, ns \in NeedleLists}

FreeUpstream == [d \in DoiUniverse |-> [x |-> "any", u |-> "any", p |-> "any"]]

NoCalls == [fetch |-> FALSE, download |-> FALSE, scan |-> FALSE]
EmptyCache == [crossref |-> EmptyMap, unpaywall |-> EmptyMap, matches |-> EmptyMap]

\* A run about to start on an empty output directory.
FreshRun ==
    /\ pc = "init"
    /\ start = 0
    /\ tasks = <<>>
    /\ sem = 0
    /\ rows = <<>>
    /\ st2 = NoSt2
    /\ all_rows = <<>>
    /\ reports = <<>>
    /\ cache = EmptyCache
    /\ files = EmptyMap
    /\ calls = NoCalls
    /\ run = 1
    /\ prev = <<>>

Init ==
    /\ impl \in Impls
    /\ cfg \in Configs(impl, {NeedlesA})
    /\ dois \in InputLists
    /\ upstream = FreeUpstream
    /\ FreshRun
    /\ BoIdle
    /\ FnIdle

Stage1 == \E i \in 1..Len(tasks) :
    TaskStart(i) \/ TaskXref(i) \/ TaskUpw(i) \/ TaskDlHeaders(i) \/ TaskDlBody(i)

Stage2 == Stage2Begin \/ Stage2Row \/ \E k \in 1..Len(st2.todo) : ScanRun(k)

Next == RunStart \/ Stage1 \/ Stage2 \/ BatchEnd \/ Finalize

vars == <<impl, bo_vars, orch_vars, fn_vars>>

Spec == Init /\ [][Next]_vars

\* The event loop runs every coroutine that is ready, and every request,
\* sleep and executor job comes to an end (requests carry timeouts).
SpecFair == Spec /\ WF_vars(Next)

\* --- The program run again on the same input and output directory ---

MaxRuns == 2

\* What an upstream answers for an identifier when its answers do not
\* change: metadata, open-access record, PDF host.
Scenario(x, u, p) == [x |-> x, u |-> u, p |-> p]
Scenarios ==
    {Scenario("ok", "pdf", "pdfA"), Scenario("empty", "closed", "404"),
     Scenario("503", "pdf", "reset"), Scenario("ok", "403", "pdfA")}

identifiers(ds) == {ds[i] : i \in 1..Len(ds)}

StableUpstreams(ds) ==
    {f \in [DoiUniverse -> Scenarios] :
        \A d \in DoiUniverse \ identifiers(ds) : f[d] = Scenario("ok", "pdf", "pdfA")}

\* What is kept of a run that has ended: its configuration, its rows, the
\* functions it invoked, how it ended, and the output directory it left.
RunRecord ==
    [cfg |-> cfg, rows |-> all_rows, calls |-> calls, ended |-> pc, files |-> files]

\* The configurations another run may have: the same batching, any cache
\* switches, dry-run switch and strings.
RerunConfigs ==
    {c \in Configs(impl, {NeedlesA, NeedlesB}) :
        /\ c.batch_size = cfg.batch_size
        /\ c.concurrency = cfg.concurrency
        /\ c.write_after_each_batch = cfg.write_after_each_batch}

RunEnded == pc \in {"done", "aborted"}

\* The state of a process that has just been started: the cache directory
\* c and the output directory f are what it finds on disk.
Restart(c, f) ==
    /\ pc' = "init"
    /\ start' = 0
    /\ tasks' = <<>>
    /\ sem' = 0
    /\ rows' = <<>>
    /\ st2' = NoSt2
    /\ all_rows' = <<>>
    /\ reports' = <<>>
    /\ calls' = NoCalls
    /\ cache' = c
    /\ files' = f
    /\ run' = run + 1
    /\ prev' = Append(prev, RunRecord)
    /\ UNCHANGED <<impl, fn_vars, bo_vars, dois, upstream>>

\* The program is started again after a run has ended (returned, or died
\* with an exception): same input, same directories, any configuration.
Rerun ==
    /\ RunEnded
    /\ run < MaxRuns
    /\ cfg' \in RerunConfigs
    /\ Restart(cache, files)

\* The last run once more, with the cache directory emptied and the output
\* directory as that run found it.
Replay ==
    /\ RunEnded
    /\ run = MaxRuns
    /\ cfg' = cfg
    /\ Restart(EmptyCache, IF prev = <<>> THEN EmptyMap ELSE prev[Len(prev)].files)

InitRerun ==
    /\ impl \in Impls
    /\ cfg \in {c \in Configs(impl, {NeedlesA, NeedlesB}) : c.write_after_each_batch}
    /\ dois \in InputLists
    /\ upstream \in StableUpstreams(dois)
    /\ FreshRun
    /\ BoIdle
    /\ FnIdle

NextRerun == Next \/ Rerun \/ Replay

SpecRerun == InitRerun /\ [][NextRerun]_vars

\* One logical call of backoff_request, in either implementation.
InitBackoff ==
    /\ BoInit
    /\ cfg = Config(1, 1, TRUE, FALSE, FALSE, TRUE, <<>>)
    /\ dois = <<>>
    /\ upstream = FreeUpstream
    /\ FreshRun
    /\ FnIdle

SpecBackoff == InitBackoff /\ [][BoNext]_vars

\* --- Single functions called on their own ---

\* What a cache file can hold when the program finds it: a document it
\* wrote, text that is no JSON (a write cut short), or bytes that are no
\* UTF-8 text.
Malformed == [utf8 |-> TRUE, text |-> <<Tok("{", <<>>)>>]
Undecodable == [utf8 |-> FALSE, text |-> <<>>]
StoredEntries == {Entry(EmptyDict), Entry(MetaOf(<<"a">>)), Malformed, Undecodable}
CacheKeys == {sanitize_filename(d) : d \in DoiUniverse}
StoredCaches ==
    {[EmptyCache EXCEPT !.crossref = f] :
        f \in UNION {[K -> StoredEntries] : K \in SUBSET CacheKeys}}

\* The documents handed to the cache: upstream records (one with a lone
\* surrogate in its title) and match results.
Namespaces == {"crossref", "unpaywall", "matches"}
WrittenDocs(ns) ==
    IF ns = "matches"
    THEN {NoMatch, [found |-> TRUE, matches |-> <<<<"a">>, <<"x", "a">>>>, pages |-> <<1, 3>>]}
    ELSE {EmptyDict, MetaOf(<<"a">>), MetaOf(<<"a", Surrogate>>), OaPdf(<<"a">>),
          OaLoc(<<"a", "/", "b">>), OaClosed}

\* write_cache_json(cache_path(...), doc) resp. cache_write(cache_path(...), doc)
CallCacheWrite ==
    /\ fn_call.fn = "none"
    /\ \E ns \in Namespaces, d \in DoiUniverse : \E doc \in WrittenDocs(ns) :
        /\ cache' = cache_write(cache, cache_path(ns, d), doc)
        /\ fn_call' = [FnCall("cache_write", ns, d, "") EXCEPT !.doc = doc]
        /\ fn_ret' = FnRet(FALSE, FALSE, EmptyDict)
    /\ UNCHANGED <<impl, bo_vars, cfg, dois, upstream, pc, start, tasks, sem, rows, st2,
                   all_rows, reports, files, calls, run, prev>>

\* read_cache_json(cache_path(...)) resp. cache_read(cache_path(...)), on
\* its own or after a write
CallCacheRead ==
    /\ fn_call.fn \in {"none", "cache_write"}
    /\ \E ns \in Namespaces, d \in DoiUniverse :
        LET cp == cache_path(ns, d)
            r == cache_read(cp, EmptyDict)
        IN  /\ fn_call' = FnCall("cache_read", ns, d, "")
            /\ fn_ret' = IF cache_read_raises(impl, cp)
                         THEN FnRet(TRUE, FALSE, EmptyDict)
                         ELSE FnRet(FALSE, r.hit, r.doc)
    /\ UNCHANGED <<impl, bo_vars, orch_vars>>

\* fetch_crossref(client, doi) resp. fetch_unpaywall(client, doi, email)
CallFetch ==
    /\ fn_call.fn = "none"
    /\ \/ \E d \in DoiUniverse, kind \in XrefKinds :
            LET r == fetch_crossref(impl, d, kind)
            IN  /\ fn_call' = FnCall("fetch_crossref", "crossref", d, kind)
                /\ fn_ret' = FnRet(r.raised, FALSE, r.doc)
       \/ \E d \in DoiUniverse, kind \in UpwKinds \cup {"loc"} :
            LET r == fetch_unpaywall(impl, d, kind)
            IN  /\ fn_call' = FnCall("fetch_unpaywall", "unpaywall", d, kind)
                /\ fn_ret' = FnRet(r.raised, FALSE, r.doc)
    /\ UNCHANGED <<impl, bo_vars, orch_vars>>

\* The staging folder search_pdf is called on: two PDFs, an HTML page and
\* a truncated PDF; downloads/m does not exist.
ScanFolder ==
    Put(Put(Put(Put(EmptyMap, Path("downloads", <<"a">>), File("pdfA", TRUE)),
                Path("downloads", <<"b">>), File("pdfB", TRUE)),
            Path("downloads", <<"h">>), File("html", TRUE)),
        Path("downloads", <<"p">>), File("pdfA", FALSE))
ScanPaths == DOMAIN ScanFolder \cup {Path("downloads", <<"m">>)}
NeedleUniverse == {<<>>, <<"a">>, <<"A">>, <<"b">>, <<"X", "a">>, <<"x", "A">>}
MaxNeedles == 2
SearchNeedles == SeqsUpTo(NeedleUniverse, MaxNeedles)

\* search_pdf(pdf_path, needles)
CallSearch ==
    /\ fn_call.fn = "none"
    /\ \E path \in ScanPaths, needles \in SearchNeedles :
        /\ fn_call' = [FnCall("search_pdf", "", <<>>, "") EXCEPT
                           !.path = path, !.needles = needles]
        /\ fn_ret' = FnRet(FALSE, FALSE, search_pdf(path, needles))
    /\ UNCHANGED <<impl, bo_vars, orch_vars>>

\* The open-access records best_pdf_url is called on.
UrlA == <<"pdf:", "a">>
UrlB == <<"web:", "b">>
LocUniverse == {Loc(p, q) : p \in {NoUrl, UrlA}, q \in {NoUrl, UrlB}}
MaxLocs == 2
OaRecords ==
    {EmptyDict} \cup
    {[EmptyDict EXCEPT !.nonempty = TRUE, !.is_oa = "true", !.best = b, !.locs = ls] :
        b \in {<<>>} \cup {<<l>> : l \in LocUniverse},
        ls \in SeqsUpTo(LocUniverse, MaxLocs)}

\* best_pdf_url(ua)
CallBestUrl ==
    /\ fn_call.fn = "none"
    /\ \E ua \in OaRecords :
        /\ fn_call' = [FnCall("best_pdf_url", "", <<>>, "") EXCEPT !.doc = ua]
        /\ fn_ret' = FnRet(FALSE, FALSE, best_pdf_url(ua))
    /\ UNCHANGED <<impl, bo_vars, orch_vars>>

InitCalls ==
    /\ impl \in Impls
    /\ cfg = Config(1, 1, TRUE, FALSE, FALSE, TRUE, <<>>)
    /\ dois = <<>>
    /\ upstream = FreeUpstream
    /\ pc = "init"
    /\ start = 0
    /\ tasks = <<>>
    /\ sem = 0
    /\ rows = <<>>
    /\ st2 = NoSt2
    /\ all_rows = <<>>
    /\ reports = <<>>
    /\ cache \in StoredCaches
    /\ files = ScanFolder
    /\ calls = NoCalls
    /\ run = 1
    /\ prev = <<>>
    /\ BoIdle
    /\ FnIdle

NextCalls == CallCacheRead \/ CallCacheWrite \/ CallFetch \/ CallSearch \/ CallBestUrl

SpecCalls == InitCalls /\ [][NextCalls]_vars

(***************************************************************************)
(* Properties of backoff_request (checked under SpecBackoff)               *)
(***************************************************************************)

BoDone == bo_pc \in {"returned", "raised"}

IsRetryableStatus(resp) == resp.kind = "status" /\ resp.status \in {429, 500, 502, 503, 504}
IsRetryableCondition(resp) == resp.kind = "transport" \/ IsRetryableStatus(resp)
IsNonRetryableStatus(resp) ==
    resp.kind = "status" /\ resp.status >= 400 /\ resp.status \notin {429, 500, 502, 503, 504}

Plain(s) == [kind |-> "status", status |-> s, ra |-> ""]

\* The documented schedule min(0.5 * 2^i, 10) s, written out in ms.
DocumentedWait(i) ==
    CASE i = 0 -> 500 [] i = 1 -> 1000 [] i = 2 -> 2000
      [] i = 3 -> 4000 [] i = 4 -> 8000 [] OTHER -> 10000

Scenario503 == <<Plain(503), Plain(503), Plain(503), Plain(503), Plain(503), Plain(200)>>

\* C7: one logical call issues at most 6 requests, whatever the responses;
\* for 503 (without Retry-After) on attempts 0..4 and success on attempt 5 it
\* issues exactly 6 requests, waits 0.5, 1, 2, 4, 8 s after the failed
\* attempts and returns the successful response.
C7_BackoffSchedule ==
    /\ Len(bo_hist) <= 6
    /\ \A k \in 1..Len(bo_waits) :
        (\A j \in 1..k : bo_hist[j] = Plain(503)) => bo_waits[k] = DocumentedWait(k - 1)
    /\ bo_hist = Scenario503 =>
        /\ bo_pc = "returned"
        /\ bo_out = "response"
        /\ bo_waits = <<500, 1000, 2000, 4000, 8000>>

C7_Witness == bo_hist = Scenario503 /\ bo_pc = "returned"

\* C8: a response with a non-retryable status (a 4xx other than 429) makes
\* the call raise at once: it is the last response of the call, no wait
\* follows it and no further request is issued.
C8_NonRetryableRaisesAtOnce ==
    \A k \in 1..Len(bo_hist) :
        IsNonRetryableStatus(bo_hist[k]) =>
            /\ k = Len(bo_hist)
            /\ bo_pc = "raised"
            /\ Len(bo_waits) < k

\* C9: after a retryable status that carries a Retry-After header (in
\* seconds) the wait equals the header's value; after a retryable status
\* without the header it is the computed min(0.5 * 2^i, 10) s.
C9_RetryAfterOverrides ==
    \A k \in 1..Len(bo_waits) :
        IsRetryableStatus(bo_hist[k]) =>
            bo_waits[k] =
                CASE bo_hist[k].ra = "0" -> 0
                  [] bo_hist[k].ra = "3" -> 3000
                  [] OTHER -> DocumentedWait(k - 1)

\* C10: the call ends in one of three ways: a successful response; the
\* transient failure, raised right after the sixth attempt when all six
\* attempts met a retryable condition; the permanent failure, for a
\* non-retryable status.  The exception classes of the code stand for the
\* error kinds: RuntimeError and httpx.RequestError for the transient one,
\* httpx.HTTPStatusError for the permanent one.
C10_ThreeOutcomes ==
    /\ (bo_pc = "sleep" => Len(bo_hist) < 6)
    /\ BoDone =>
        \/ bo_out = "response" /\ ~IsRetryableCondition(bo_hist[Len(bo_hist)])
                               /\ ~IsNonRetryableStatus(bo_hist[Len(bo_hist)])
        \/ /\ bo_out \in {"RuntimeError", "RequestError"}
           /\ Len(bo_hist) = 6
           /\ \A k \in 1..6 : IsRetryableCondition(bo_hist[k])
           /\ Len(bo_waits) = 5
        \/ /\ bo_out = "HTTPStatusError"
           /\ IsNonRetryableStatus(bo_hist[Len(bo_hist)])

(***************************************************************************)
(* Properties of the batch loop (checked under Spec)                       *)
(***************************************************************************)

InFlightCount == Cardinality({i \in 1..Len(tasks) : InFlight(tasks[i])})

\* Stage 2 of the current batch has handled every element of to_process
\* (or, in a dry run, is skipped and gather has returned).
Stage2Complete ==
    \/ pc = "process" /\ st2.idx > Len(st2.todo)
    \/ impl = "pkg" /\ cfg.dry_run /\ \A i \in 1..Len(tasks) : tasks[i].pc = "done"

\* C1: in every batch, Stage 2 (process_batch_pdfs) runs only once every
\* Stage-1 task of that batch has returned: while Stage 2 is running, no
\* prepare_one task of the batch is waiting to start or in flight.
C1_StageOrder ==
    pc = "process" => \A i \in 1..Len(tasks) : tasks[i].pc = "done"

\* Stage 2 has just begun on a batch of two downloaded files.
C1_Witness ==
    /\ pc = "process"
    /\ Len(tasks) = 2
    /\ Len(st2.todo) = 2
    /\ st2.idx = 1

\* C2: batches are taken in input order and never overlap: the tasks of a
\* later batch are created only when Stage 2 of the current batch has
\* handled all its rows, they are the next identifiers of the input in
\* order, and the rows collected so far are those of the identifiers before
\* them, in order.
C2_BatchOrder ==
    [][start' # start =>
        /\ Stage2Complete
        /\ start' = start + Len(tasks)
        /\ Len(all_rows') = start'
        /\ \A j \in 1..start' : all_rows'[j].doi = dois[j]
        /\ Len(tasks') > 0
        /\ \A i \in 1..Len(tasks') :
              tasks'[i].pc = "new" /\ tasks'[i].doi = dois[start' + i]]_vars

\* A task of the second batch is in flight after Stage 2 of the first batch
\* has routed a file.
C2_Witness ==
    /\ start > 0
    /\ \E i \in 1..Len(tasks) : InFlight(tasks[i])
    /\ \E j \in 1..Len(all_rows) : all_rows[j].pdf_final_path # NoPath

\* C3: a failure of an identifier's metadata fetch, open-access fetch or
\* download never leaves its Stage-1 task as an exception (which would end
\* gather and the run), and a run that ends has one row per identifier.
C3_FailureIsolation ==
    /\ \A i \in 1..Len(tasks) : tasks[i].pc \notin {"raised", "cancelled"}
    /\ pc = "done" => Len(all_rows) = Len(dois)

\* C6: at every moment the number of prepare_one tasks past the semaphore
\* and not yet finished is at most the configured concurrency.
C6_ConcurrencyLimit == InFlightCount <= cfg.concurrency

\* The limit is reached while another task of the batch waits to start.
C6_Witness ==
    /\ InFlightCount = cfg.concurrency
    /\ \E i \in 1..Len(tasks) : tasks[i].pc = "new"

(***************************************************************************)
(* Properties of repeated runs (checked under SpecRerun)                   *)
(***************************************************************************)

\* The run before the current one returned, and the current one has the
\* same configuration, with caching enabled and force_refresh off.
SameRunAgain ==
    /\ 1 < run /\ run <= MaxRuns
    /\ prev[run - 1].ended = "done"
    /\ prev[run - 1].cfg = cfg
    /\ cfg.cache_enabled /\ ~cfg.force_refresh

\* C4: when the same batch is run a second time with the same
\* configuration, caching enabled, force_refresh off and the same upstream
\* answers, the second run invokes no fetch, no download and no scan, and
\* its rows equal the first run's rows field for field.
C4_RerunIdempotent ==
    SameRunAgain =>
        /\ calls = NoCalls
        /\ pc = "done" => all_rows = prev[run - 1].rows

\* The run started on an emptied cache from the directory state the last
\* run started from (the replay of the last run) has ended.
ReplayEnded == run = MaxRuns + 1 /\ RunEnded

\* No two identifiers of the input share a sanitized form; the tasks of a
\* run then touch disjoint cache entries and files, and what the run
\* returns does not depend on how they interleave.
DistinctKeys ==
    \A i, j \in 1..Len(dois) :
        i # j => sanitize_filename(dois[i]) # sanitize_filename(dois[j])

\* C5: a run's rows do not depend on the caches: the run that found the
\* caches as earlier runs left them and its replay on empty caches, with
\* the same identifiers, configuration, upstream answers and output
\* directory, end the same way with the same rows.
C5_CachePureOptimization ==
    ReplayEnded /\ DistinctKeys =>
        /\ pc = prev[MaxRuns].ended
        /\ all_rows = prev[MaxRuns].rows

(***************************************************************************)
(* Properties of single functions (checked under SpecCalls)                *)
(***************************************************************************)

\* C11: fetch_crossref and fetch_unpaywall never raise: whatever the
\* request meets, they return a record or the empty record, and a 404 from
\* the open-access upstream yields the empty record.
C11_FetchersNeverRaise ==
    fn_call.fn \in {"fetch_crossref", "fetch_unpaywall"} =>
        /\ ~fn_ret.raised
        /\ fn_call.fn = "fetch_unpaywall" /\ fn_call.kind = "404" => fn_ret.doc = EmptyDict

\* The stored file of a call's key is missing, or no well-formed document.
NothingReadable(cp) ==
    ~HasEntry(cp) \/ ~cache[cp.ns][cp.key].utf8
                  \/ ~json_loads(cache[cp.ns][cp.key].text).ok

\* C20: a cache read never raises: on a missing, malformed or unreadable
\* stored file it returns the absence value (a miss), and it changes no
\* stored file.
C20_CacheReadNeverRaises ==
    /\ [](fn_call.fn = "cache_read" =>
            /\ ~fn_ret.raised
            /\ NothingReadable(cache_path(fn_call.ns, fn_call.doi)) =>
                  ~fn_ret.hit /\ fn_ret.doc = EmptyDict)
    /\ [][fn_call'.fn = "cache_read" => cache' = cache /\ files' = files]_vars

(***************************************************************************)
(* Properties of download_pdf and move_pdf_atomic (checked under Spec)     *)
(***************************************************************************)

\* Task i's download_pdf call returns in this step.
DownloadReturns(i) ==
    /\ i <= Len(tasks')
    /\ tasks[i].pc \in {"dl_wait", "dl_body"}
    /\ tasks'[i].pc = "done"

\* C12: when download_pdf fails (returns False) no file is at the
\* destination path and the file the call was writing is gone.  (Inputs
\* whose identifiers have distinct sanitized forms: no other task writes to
\* the same destination.)
C12_NoPartialFile ==
    [][DistinctKeys =>
        \A i \in 1..Len(tasks) :
            DownloadReturns(i) /\ tasks'[i].row.pdf_temp_path = NoPath =>
                /\ staged_path(tasks[i].doi) \notin DOMAIN files'
                /\ tasks[i].tmp \notin DOMAIN files']_vars

\* C13: when the body received does not start with %PDF, download_pdf
\* returns False, the row's staged path is empty and no file is left at
\* the destination path.
C13_DownloadValidation ==
    [][DistinctKeys =>
        \A i \in 1..Len(tasks) :
            /\ DownloadReturns(i)
            /\ tasks[i].pc = "dl_body"
            /\ tasks[i].dl.fail = "none"
            /\ ~BodyIsPdf(tasks[i].dl.body)
            => /\ tasks'[i].row.pdf_temp_path = NoPath
               /\ staged_path(tasks[i].doi) \notin DOMAIN files']_vars

\* Stage 2 routes the staged file of row r in this step.
RouteStep(r) ==
    /\ pc = "process"
    /\ r <= Len(rows')
    /\ rows[r].pdf_final_path = NoPath
    /\ rows'[r].pdf_final_path # NoPath

Destinations == {"found", "notfound"}
Suffixed(name, k) == name \o <<"_", ToString(k)>>

\* C14: routing never overwrites: every file already in a destination
\* folder keeps its name and content, and the routed file lands at its own
\* name if that is free there, otherwise at name_k for the smallest k >= 1
\* that is free.
C14_RouterNeverOverwrites ==
    [][\A r \in 1..Len(rows) : RouteStep(r) =>
        LET src == rows[r].pdf_temp_path
            fin == rows'[r].pdf_final_path
            taken(n) == Path(fin.dir, n) \in DOMAIN files
        IN  /\ \A p \in DOMAIN files :
                  p.dir \in Destinations => p \in DOMAIN files' /\ files'[p] = files[p]
            /\ fin.dir \in Destinations
            /\ fin \notin DOMAIN files
            /\ \/ fin.name = src.name
               \/ \E k \in 1..Cardinality(DOMAIN files) :
                     /\ fin.name = Suffixed(src.name, k)
                     /\ taken(src.name)
                     /\ \A j \in 1..(k - 1) : taken(Suffixed(src.name, j))]_vars

\* The third file named "a" routed to the found folder is there as a_2,
\* beside a and a_1.
C14_Witness ==
    /\ Path("found", <<"a">>) \in DOMAIN files
    /\ Path("found", Suffixed(<<"a">>, 1)) \in DOMAIN files
    /\ Path("found", Suffixed(<<"a">>, 2)) \in DOMAIN files

\* C15: a route is one rename: afterwards the source path is gone, the
\* final path (new in the directory tree) holds the source's content, and
\* no other path appeared or disappeared, so the number of files is the
\* same.
C15_RouteIsRename ==
    [][\A r \in 1..Len(rows) : RouteStep(r) =>
        LET src == rows[r].pdf_temp_path
            fin == rows'[r].pdf_final_path
        IN  /\ src \in DOMAIN files
            /\ src \notin DOMAIN files'
            /\ fin \in DOMAIN files'
            /\ files'[fin] = files[src]
            /\ DOMAIN files' = ((DOMAIN files) \ {src}) \cup {fin}
            /\ Cardinality(DOMAIN files') = Cardinality(DOMAIN files)]_vars

\* A batch's second file has just been routed: both rows have a final path
\* holding a file, and the downloads folder is empty again.
C15_Witness ==
    /\ pc = "process"
    /\ Len(rows) = 2
    /\ \A r \in 1..2 : rows[r].pdf_final_path \in DOMAIN files
    /\ \A p \in DOMAIN files : p.dir \in Destinations

(***************************************************************************)
(* Properties of the rows and of the run as a whole                        *)
(***************************************************************************)

\* C16: Stage 2 sets a row's final path exactly when the row had a staged
\* path at the start of Stage 2 and the staged file exists when Stage 2
\* reaches the row; a missing staged file does not make Stage 2 fail.
C16_FinalPathIffStaged ==
    /\ [][pc = "process" /\ st2'.idx = st2.idx + 1 =>
            LET r == st2.todo[st2.idx].r
            IN  /\ pc' # "aborted"
                /\ rows'[r].pdf_final_path # NoPath
                      <=> rows[r].pdf_temp_path \in DOMAIN files]_vars
    /\ [](pc = "process" =>
            \A r \in 1..Len(rows) :
                tasks[r].row.pdf_temp_path = NoPath => rows[r].pdf_final_path = NoPath)

\* C17: at DONE the accumulated rows are one per input identifier, in
\* input order.
C17_RowPerIdentifierInOrder ==
    pc = "done" =>
        /\ Len(all_rows) = Len(dois)
        /\ \A i \in 1..Len(dois) : all_rows[i].doi = dois[i]

\* A run over two different identifiers prepared concurrently in one batch
\* is done; only the second one's file was routed.
C17_Witness ==
    /\ pc = "done"
    /\ Len(dois) = 2 /\ dois[1] # dois[2]
    /\ cfg.batch_size = 2 /\ cfg.concurrency = 2
    /\ all_rows[1].pdf_final_path = NoPath
    /\ all_rows[2].pdf_final_path # NoPath

\* C18: whatever the upstream services answer, the run eventually reaches
\* DONE.
C18_RunReachesDone == <>(pc = "done")

(***************************************************************************)
(* Properties of the cache across runs (checked under SpecRerun)           *)
(***************************************************************************)

\* The configuration has Stage 1 look into the cache (pkg always does).
CacheInUse == impl = "pkg" \/ (cfg.cache_enabled /\ ~cfg.force_refresh)

\* The cache holds the empty document under (ns, identifier).
EmptyStored(ns, d) ==
    /\ HasEntry(cache_path(ns, d))
    /\ cache[ns][cache_path(ns, d).key] = Entry(EmptyDict)

\* C19: an empty document is a valid cached outcome: while the cache holds
\* the empty document for an identifier, no Stage-1 task goes on to fetch
\* that document from the upstream.  (Inputs whose identifiers have
\* distinct sanitized forms: an entry is written by its own task only.)
C19_EmptyDocIsHit ==
    [][DistinctKeys /\ CacheInUse =>
        \A i \in 1..Len(tasks) :
            i <= Len(tasks') /\ tasks'[i].doi = tasks[i].doi =>
                /\ tasks[i].pc # "xref" /\ tasks'[i].pc = "xref"
                      => ~EmptyStored("crossref", tasks[i].doi)
                /\ tasks[i].pc # "upw" /\ tasks'[i].pc = "upw"
                      => ~EmptyStored("unpaywall", tasks[i].doi)]_vars

(***************************************************************************)
(* Claims about the cache as a store                                       *)
(***************************************************************************)

WrittenKey == cache_path(fn_call'.ns, fn_call'.doi)

\* C21: cache round trip: for every key and every JSON document D, the
\* empty object included, a read that follows write(namespace, identifier,
\* D) returns exactly D; the write replaces the earlier value of that key
\* and leaves every other key as it was.
C21_CacheRoundTrip ==
    [][/\ fn_call'.fn = "cache_write" =>
            \A ns \in Namespaces :
                /\ DOMAIN cache'[ns] =
                       DOMAIN cache[ns] \cup (IF ns = WrittenKey.ns THEN {WrittenKey.key} ELSE {})
                /\ \A k \in DOMAIN cache[ns] :
                       (ns # WrittenKey.ns \/ k # WrittenKey.key) => cache'[ns][k] = cache[ns][k]
       /\ (/\ fn_call.fn = "cache_write"
           /\ fn_call'.fn = "cache_read"
           /\ cache_path(fn_call.ns, fn_call.doi) = WrittenKey) =>
            /\ ~fn_ret'.raised
            /\ fn_ret'.hit
            /\ fn_ret'.doc = fn_call.doc]_vars

(***************************************************************************)
(* Claims about the Text Matcher                                           *)
(***************************************************************************)

\* The file of the call parses as a PDF.
Parses(path) == Exists(path) /\ files[path].complete /\ BodyIsPdf(files[path].body)

\* The case-folded text of page i of the file (empty where extraction
\* fails), and the case-folded needles of a list.
PageText(path, i) ==
    LET pg == BodyPages(files[path].body)[i]
    IN  IF pg.ok THEN [j \in 1..Len(pg.text) |-> fold_char(pg.text[j])] ELSE <<>>
PageCount(path) == Len(BodyPages(files[path].body))
Folded(needles) ==
    {[j \in 1..Len(needles[k]) |-> fold_char(needles[k][j])] : k \in 1..Len(needles)}

\* q lists the elements of the set S of strings resp. integers, each once,
\* in ascending order.
AscendingStrs(q, S) ==
    /\ {q[k] : k \in 1..Len(q)} = S
    /\ \A k \in 1..(Len(q) - 1) : str_less(q[k], q[k + 1])
AscendingInts(q, S) ==
    /\ {q[k] : k \in 1..Len(q)} = S
    /\ \A k \in 1..(Len(q) - 1) : q[k] < q[k + 1]

\* The result of the search is the one described, the pages taken from Pg.
SearchResultOver(Pg) ==
    LET path == fn_call.path
        r == fn_ret.doc
        M == {n \in Folded(fn_call.needles) : \E i \in Pg : is_substring(n, PageText(path, i))}
        P == {i \in Pg : \E n \in Folded(fn_call.needles) : is_substring(n, PageText(path, i))}
    IN  /\ AscendingStrs(r.matches, M)
        /\ AscendingInts(r.pages, P)
        /\ r.found = (M # {})
        /\ \A other \in SearchNeedles :
               Folded(other) = Folded(fn_call.needles) => search_pdf(path, other) = r

\* C22 as stated: search returns matches = the sorted, de-duplicated set of
\* case-folded needles that occur as a substring of the case-folded text of
\* at least one page, pages = the ascending, de-duplicated 1-based numbers
\* of the pages containing at least one needle, found = (matches is
\* non-empty); the result is the same for any reordering or re-casing of
\* the needle list.
C22_SearchResultAsStated ==
    (fn_call.fn = "search_pdf" /\ Parses(fn_call.path)) =>
        SearchResultOver(1..PageCount(fn_call.path))

\* C22, amended: the same, over the pages that have text: a page whose
\* extracted text is empty is skipped before any needle is tested, so it is
\* never a page of the result, not even for the empty needle.
C22_SearchResult ==
    (fn_call.fn = "search_pdf" /\ Parses(fn_call.path)) =>
        SearchResultOver({i \in 1..PageCount(fn_call.path) : PageText(fn_call.path, i) # <<>>})

C22_Witness ==
    /\ fn_call.fn = "search_pdf"
    /\ fn_call.needles = << <<"X", "a">>, <<"A">> >>
    /\ fn_ret.doc = [found |-> TRUE, matches |-> << <<"a">>, <<"x", "a">> >>, pages |-> <<1, 3>>]

\* C23: search never raises: a file that does not parse as a whole gives
\* found = false, matches = [], pages = []; a page whose text extraction
\* fails counts as a page without text and is no page of the result, and
\* every other page is still scanned: a needle in the text of such a page
\* is among the matches and the page among the pages.
C23_SearchNeverRaises ==
    fn_call.fn = "search_pdf" =>
        /\ ~fn_ret.raised
        /\ ~Parses(fn_call.path) => fn_ret.doc = NoMatch
        /\ Parses(fn_call.path) =>
              \A i \in 1..PageCount(fn_call.path) :
                  LET pg == BodyPages(files[fn_call.path].body)[i]
                      listed == \E k \in 1..Len(fn_ret.doc.pages) : fn_ret.doc.pages[k] = i
                  IN  /\ ~pg.ok => ~listed
                      /\ (pg.ok /\ pg.text # <<>>) =>
                            \A n \in Folded(fn_call.needles) :
                                is_substring(n, PageText(fn_call.path, i)) =>
                                    /\ listed
                                    /\ \E k \in 1..Len(fn_ret.doc.matches) :
                                           fn_ret.doc.matches[k] = n

\* A needle found only behind the page whose extraction fails.
C23_Witness ==
    /\ fn_call.fn = "search_pdf"
    /\ Parses(fn_call.path)
    /\ PageCount(fn_call.path) = 3
    /\ ~BodyPages(files[fn_call.path].body)[2].ok
    /\ fn_call.needles = << <<"a">> >>
    /\ fn_ret.doc.pages = <<1, 3>>

(***************************************************************************)
(* Claims about the choice of the download URL                             *)
(***************************************************************************)

Offers(loc) == loc.url_for_pdf # NoUrl \/ loc.url # NoUrl

\* C24: best-URL selection is a function of the open-access record alone:
\* the best location's PDF URL if there is one, else the best location's
\* page URL, else the PDF URL, or failing that the page URL, of the first
\* entry of the candidate list that offers either, else nothing; an empty
\* record and a record without any URL give no URL.
C24_BestUrlSelection ==
    fn_call.fn = "best_pdf_url" =>
        LET ua == fn_call.doc
            url == fn_ret.doc
            first == CHOOSE k \in 1..Len(ua.locs) :
                         Offers(ua.locs[k]) /\ \A j \in 1..(k - 1) : ~Offers(ua.locs[j])
        IN  /\ ~fn_ret.raised
            /\ url = best_pdf_url(ua)
            /\ IF ~ua.nonempty THEN url = NoUrl
               ELSE IF ua.best # <<>> /\ ua.best[1].url_for_pdf # NoUrl
                    THEN url = ua.best[1].url_for_pdf
               ELSE IF ua.best # <<>> /\ ua.best[1].url # NoUrl
                    THEN url = ua.best[1].url
               ELSE IF \E k \in 1..Len(ua.locs) : Offers(ua.locs[k])
                    THEN url = IF ua.locs[first].url_for_pdf # NoUrl
                               THEN ua.locs[first].url_for_pdf ELSE ua.locs[first].url
               ELSE url = NoUrl

\* The best location offers nothing and the second candidate is the first
\* to offer a URL.
C24_Witness ==
    /\ fn_call.fn = "best_pdf_url"
    /\ fn_call.doc.best = <<Loc(NoUrl, NoUrl)>>
    /\ fn_call.doc.locs = <<Loc(NoUrl, NoUrl), Loc(UrlA, UrlB)>>
    /\ fn_ret.doc = UrlA

(***************************************************************************)
(* Claims about the reports                                                *)
(***************************************************************************)

\* The batches whose rows have been added to all_rows.
BatchesDone == (Len(all_rows) + cfg.batch_size - 1) \div cfg.batch_size

\* C25: with write_after_each_batch, the report is written after Stage 2
\* of every batch k, with exactly the rows of the batches 1..k in order;
\* without it, the report is written only once, at the end of the run, with
\* the complete set of rows.
C25_ReportCadence ==
    /\ [](LET each == cfg.write_after_each_batch
          IN  /\ each =>
                   /\ Len(reports) = BatchesDone + (IF pc = "done" THEN 1 ELSE 0)
                   /\ \A k \in 1..BatchesDone :
                          /\ reports[k] =
                                 SubSeq(all_rows, 1, Min(k * cfg.batch_size, Len(all_rows)))
                          /\ \A j \in 1..Len(reports[k]) : reports[k][j].doi = dois[j]
              /\ ~each => reports = IF pc = "done" THEN <<all_rows>> ELSE <<>>
              /\ pc = "done" =>
                   /\ reports[Len(reports)] = all_rows
                   /\ Len(all_rows) = Len(dois))
    /\ [][reports' # reports => (pc = "final" \/ Stage2Complete)]_vars

\* Two batches have been reported, one report each, and the run is not
\* yet over.
C25_Witness ==
    /\ cfg.write_after_each_batch
    /\ ~cfg.dry_run
    /\ pc = "final"
    /\ Len(reports) = 2
    /\ Len(reports[1]) = 1
    /\ Len(reports[2]) = 2

(***************************************************************************)
(* Claims about the dry run                                                *)
(***************************************************************************)

\* cache_read of the namespace returns a truthy document for the identifier.
CachedTruthy(c, ns, d) == cache_read_in(c, cache_path(ns, d), EmptyDict).doc.nonempty

UntouchedRow(r) ==
    r.pdf_temp_path = NoPath /\ r.pdf_final_path = NoPath /\ ~r.match_found

\* C26: in a dry run, run_batch never calls download_pdf and never enters
\* Stage 2, for any batch, while the metadata and the open-access fetch are
\* still made for every identifier that the cache does not hold (by every
\* task that is not ended by an exception); every row has an empty
\* pdf_temp_path and pdf_final_path and match_found = false.
C26_DryRunFetchesOnly ==
    /\ [](cfg.dry_run =>
            /\ ~calls.download
            /\ ~calls.scan
            /\ pc # "process"
            /\ st2 = NoSt2
            /\ files = EmptyMap
            /\ \A i \in 1..Len(tasks) :
                   /\ tasks[i].pc \notin {"dl_wait", "dl_body"}
                   /\ tasks[i].pc = "done" => UntouchedRow(tasks[i].row)
            /\ \A j \in 1..Len(all_rows) : UntouchedRow(all_rows[j])
            /\ \A k \in 1..Len(reports) :
                   \A j \in 1..Len(reports[k]) : UntouchedRow(reports[k][j]))
    /\ [][(cfg.dry_run /\ Len(tasks') = Len(tasks)) =>
            \A i \in 1..Len(tasks) :
                /\ (/\ tasks[i].pc = "new"
                    /\ tasks'[i].pc \notin {"new", "raised", "cancelled"}
                    /\ ~CachedTruthy(cache, "crossref", tasks[i].doi))
                      => tasks'[i].pc = "xref"
                /\ (/\ tasks[i].pc \in {"new", "xref"}
                    /\ tasks'[i].pc \notin {"new", "xref", "raised", "cancelled"}
                    /\ ~CachedTruthy(cache, "unpaywall", tasks[i].doi))
                      => tasks'[i].pc = "upw"]_vars

\* A dry run has ended with a row that names a PDF URL.
C26_Witness ==
    /\ cfg.dry_run
    /\ pc = "done"
    /\ calls.fetch
    /\ Len(all_rows) = 2
    /\ all_rows[1].pdf_url # NoUrl
    /\ UntouchedRow(all_rows[1])

(***************************************************************************)
(* Claims about Stage 2                                                    *)
(***************************************************************************)

\* C27: once Stage 2 has routed a row's staged file, the row's
\* pdf_temp_path is empty: no row, in the batch being processed or in the
\* rows of the run, has both a pdf_final_path and a pdf_temp_path.
C27_RoutedRowHasNoTempPath ==
    /\ \A j \in 1..Len(rows) :
           rows[j].pdf_final_path # NoPath => rows[j].pdf_temp_path = NoPath
    /\ \A j \in 1..Len(all_rows) :
           all_rows[j].pdf_final_path # NoPath => all_rows[j].pdf_temp_path = NoPath

\* The folder that agrees with a row's match_found.
FolderOf(row) == IF row.match_found THEN "found" ELSE "notfound"

\* C28: Stage 2 routes each staged file into the found folder if and only
\* if the row's match result has found = true, and into the not-found
\* folder otherwise, whether the result comes from a fresh scan or from the
\* match cache; after routing, match_found agrees with the folder of
\* pdf_final_path.
C28_RouteFollowsMatch ==
    /\ [](/\ \A j \in 1..Len(rows) :
                 rows[j].pdf_final_path # NoPath =>
                     rows[j].pdf_final_path.dir = FolderOf(rows[j])
          /\ \A j \in 1..Len(all_rows) :
                 all_rows[j].pdf_final_path # NoPath =>
                     all_rows[j].pdf_final_path.dir = FolderOf(all_rows[j]))
    /\ [][\A r \in 1..Len(rows) :
            RouteStep(r) =>
                LET e == st2.todo[st2.idx]
                    res == IF e.hit
                           THEN cache_read(cache_path("matches", rows[r].doi), NoMatch).doc
                           ELSE IF impl = "core" THEN e.res
                           ELSE search_pdf(rows[r].pdf_temp_path, cfg.strings)
                IN  /\ e.r = r
                    /\ rows'[r].match_found = res.found
                    /\ rows'[r].pdf_final_path.dir = (IF res.found THEN "found" ELSE "notfound")
                    /\ rows'[r].pdf_final_path \in DOMAIN files'
                    /\ rows[r].pdf_temp_path \notin DOMAIN files']_vars

\* A file staged again in a later run is routed into the found folder on
\* the cached match result.
C28_Witness ==
    /\ pc = "process"
    /\ st2.idx > 1
    /\ st2.todo[1].hit
    /\ rows[st2.todo[1].r].pdf_final_path.dir = "found"

(***************************************************************************)
(* Claims about the staging folder                                         *)
(***************************************************************************)

\* The files in the downloads folder.
Staged == {p \in DOMAIN files : p.dir = "downloads"}

\* C29: in a run that starts with an empty staging folder, the downloads
\* folder holds at most one batch's worth of PDFs at every moment: the
\* number of files in it never exceeds batch_size, for any number of
\* batches and any mix of download successes and failures.
C29_StagingBoundedByBatch == Cardinality(Staged) <= cfg.batch_size

(***************************************************************************)
(* Claims about the tasks of one batch                                     *)
(***************************************************************************)

\* C30: within one batch, concurrent Stage-1 tasks never contend on a
\* shared key: each cache key (namespace, sanitized identifier) and each
\* staging path is written by exactly one task, so no two tasks in flight
\* write the same cache file or the same staged PDF: no two tasks that are
\* streaming a download at the same time have the same staging path.
C30_NoSharedKeyInBatch ==
    \A i, j \in 1..Len(tasks) :
        (i # j /\ tasks[i].pc = "dl_body" /\ tasks[j].pc = "dl_body") =>
            staged_path(tasks[i].doi) # staged_path(tasks[j].doi)

(***************************************************************************)
(* Claims about the reuse of staged files                                  *)
(***************************************************************************)

\* Task i selects a PDF URL in this step: prepare_one goes from its
\* open-access record to the download, or past it.
UrlSelected(i) ==
    /\ pc = "prepare"
    /\ i <= Len(tasks')
    /\ tasks[i].pc \in {"new", "xref", "upw"}
    /\ tasks'[i].pc \in {"dl_wait", "done"}
    /\ (IF tasks'[i].pc = "done" THEN tasks'[i].row.pdf_url ELSE tasks'[i].url) # NoUrl

\* C31: in Stage 1, when a PDF URL is selected and a staged file for the
\* identifier already exists in the staging folder and force_refresh is
\* off, no download is issued and the existing file becomes the row's
\* staged path; a download is issued only when no file is staged for the
\* identifier or force_refresh is set.
C31_StagedFileIsReused ==
    [][\A i \in 1..Len(tasks) :
        (UrlSelected(i) /\ ~cfg.dry_run) =>
            IF Exists(staged_path(tasks[i].doi)) /\ ~cfg.force_refresh
            THEN /\ tasks'[i].pc = "done"
                 /\ tasks'[i].row.pdf_temp_path = staged_path(tasks[i].doi)
            ELSE tasks'[i].pc = "dl_wait"]_vars

(***************************************************************************)
(* Claims about the rows Stage 2 works on                                  *)
(***************************************************************************)

\* The element of to_process that Stage 2 handles next.
Handled == st2.todo[st2.idx]

\* C32: Stage 2 leaves every row without a staged file untouched: a row
\* whose pdf_temp_path is empty when Stage 2 is entered is no element of
\* to_process, no field of it changes, no cache entry is read or written
\* and no file is scanned or moved for it, so it keeps match_found = false,
\* empty matched_strings and match_pages and an empty pdf_final_path.
C32_UnstagedRowsUntouched ==
    /\ [](pc = "process" =>
            \A k \in st2.idx..Len(st2.todo) : rows[st2.todo[k].r].pdf_temp_path # NoPath)
    /\ [][/\ (pc = "prepare" /\ pc' = "process") =>
               \A j \in 1..Len(tasks) :
                   tasks[j].row.pdf_temp_path = NoPath =>
                       /\ rows'[j] = tasks[j].row
                       /\ UntouchedRow(rows'[j])
                       /\ rows'[j].matched_strings = <<>>
                       /\ rows'[j].match_pages = <<>>
                       /\ \A k \in 1..Len(st2'.todo) : st2'.todo[k].r # j
          /\ (pc = "process" /\ pc' \in {"process", "aborted"}) =>
               /\ \A j \in 1..Len(rows) :
                      rows[j].pdf_temp_path = NoPath => rows'[j] = rows[j]
               /\ (cache' # cache \/ files' # files) =>
                      /\ st2.idx <= Len(st2.todo)
                      /\ rows[Handled.r].pdf_temp_path # NoPath
                      /\ cache'.crossref = cache.crossref
                      /\ cache'.unpaywall = cache.unpaywall
                      /\ \A key \in DOMAIN cache.matches :
                             key # cache_path("matches", rows[Handled.r].doi).key =>
                                 (key \in DOMAIN cache'.matches
                                  /\ cache'.matches[key] = cache.matches[key])
                      /\ \A p \in DOMAIN files :
                             p # rows[Handled.r].pdf_temp_path =>
                                 (p \in DOMAIN files' /\ files'[p] = files[p])]_vars

\* Stage 2 has handled a batch of two rows, the first without a staged
\* file, the second routed.
C32_Witness ==
    /\ pc = "process"
    /\ st2.idx > Len(st2.todo)
    /\ Len(rows) = 2
    /\ rows[1].pdf_url # NoUrl
    /\ UntouchedRow(rows[1])
    /\ rows[2].pdf_final_path # NoPath

\* The match fields of a row are those of the result res.
HasResult(row, res) ==
    /\ row.match_found = res.found
    /\ row.matched_strings = res.matches
    /\ row.match_pages = res.pages

MatchKey(row) == cache_path("matches", row.doi)

\* C33: in Stage 2, for any mix within a batch of rows served from the
\* match cache and rows scanned afresh, each freshly computed scan result
\* is stored in the row, and under the match-cache key, of the identifier
\* whose staged PDF was scanned: no row receives another row's match
\* result, and a row served from the cache is never rescanned or re-cached.
C33_ScanResultsStayWithTheirRow ==
    /\ [](pc = "process" =>
            \A k \in 1..Len(st2.todo) : st2.todo[k].hit => st2.todo[k].fut = "none")
    /\ [][/\ (pc = "process" /\ Len(st2'.todo) = Len(st2.todo)) =>
               \A k \in 1..Len(st2.todo) :
                   (st2.todo[k].fut = "pending" /\ st2'.todo[k].fut = "done") =>
                       /\ ~st2.todo[k].hit
                       /\ st2'.todo[k].res =
                              search_pdf(rows[st2.todo[k].r].pdf_temp_path, cfg.strings)
          /\ (pc = "process" /\ st2'.idx = st2.idx + 1) =>
               /\ \A j \in 1..Len(rows) : j # Handled.r => rows'[j] = rows[j]
               /\ IF Handled.hit
                  THEN /\ cache' = cache
                       /\ HasResult(rows'[Handled.r],
                                    cache_read(MatchKey(rows[Handled.r]), NoMatch).doc)
                  ELSE IF impl = "core"
                  THEN /\ Handled.fut = "done"
                       /\ HasResult(rows'[Handled.r], Handled.res)
                       /\ IF cfg.cache_enabled
                          THEN /\ cache_read_in(cache', MatchKey(rows[Handled.r]), NoMatch).hit
                               /\ cache_read_in(cache', MatchKey(rows[Handled.r]), NoMatch).doc
                                      = Handled.res
                          ELSE cache' = cache
                  ELSE /\ cache' = cache
                       /\ HasResult(rows'[Handled.r],
                                    search_pdf(rows[Handled.r].pdf_temp_path, cfg.strings))]_vars

\* A batch of a row served from the cache, with a match, followed by a row
\* scanned afresh, without one, has been handled.
C33_Witness ==
    /\ pc = "process"
    /\ Len(st2.todo) = 2
    /\ st2.idx > 2
    /\ st2.todo[1].hit
    /\ ~st2.todo[2].hit
    /\ st2.todo[2].fut = "done"
    /\ rows[st2.todo[1].r].match_found
    /\ ~rows[st2.todo[2].r].match_found
    /\ rows[st2.todo[2].r].pdf_final_path # NoPath

(***************************************************************************)
(* Claims about what reaches the found and not-found folders               *)
(***************************************************************************)

\* C34: every file that Stage 2 scans and routes into the found or the
\* not-found folder was published in staging by a download call that
\* returned success, with its complete body: a file left in the staging
\* folder by a failed or interrupted download is never picked up as an
\* already-staged PDF by Stage 1 of a later batch or run, so no routed file
\* and no row's staged path is such a leftover.
C34_OnlyCompleteDownloadsAreRouted ==
    /\ \A p \in DOMAIN files : p.dir \in Destinations => files[p].complete
    /\ \A i \in 1..Len(tasks) :
           (tasks[i].pc = "done" /\ tasks[i].row.pdf_temp_path \in DOMAIN files) =>
               files[tasks[i].row.pdf_temp_path].complete

=============================================================================
